---------------------------- MODULE Spec2Model ----------------------------
(***************************************************************************)
(* A model of MaiConverter's simai chart core: the chart builder, the      *)
(* slide geometry resolver, the exporter, the notation parser              *)
(* (src/maiconverter/simai.py) and the measure/time converter              *)
(* (src/maiconverter/tool/time.py).                                        *)
(*                                                                         *)
(* Numbers.  Python floats are modelled by exact arithmetic on integers:   *)
(*   - a stored measure, duration or delay is an integer count of ticks    *)
(*     of 1e-4 measure (the grid every constructor rounds to);             *)
(*   - an argument handed to a constructor is a rational <<n, d>>, d > 0,  *)
(*     so that the constructor's rounding is a real computation;           *)
(*   - a tempo is an integer count of 1/100 bpm.                           *)
(* Floating-point noise below the 1e-4 grid is not modelled.               *)
(***************************************************************************)
EXTENDS Integers, Sequences, FiniteSets, TLC

VARIABLES
    notes,      \* SimaiChart.notes: the chart's notes, in insertion order
    bpms,       \* SimaiChart.bpms: the chart's tempo markers, in insertion order
    last,       \* the last chart operation and how it ended
    text,       \* the notation text: the result of export(), or the parser's input
    parsed,     \* the chart simai_parse_chart returned for text
    geo,        \* slide geometry resolver: the call's arguments and results
    tconv       \* measure/time converter: the call's arguments and results

vars == <<notes, bpms, last, text, parsed, geo, tconv>>

-----------------------------------------------------------------------------
(* Arithmetic helpers *)

Abs(x) == IF x < 0 THEN -x ELSE x

Max(a, b) == IF a >= b THEN a ELSE b

RECURSIVE Gcd(_, _)
Gcd(a, b) == IF b = 0 THEN Abs(a) ELSE Gcd(b, a % b)

\* Python's round(n / d) for d > 0: to the nearest integer, ties to even.
RoundDiv(n, d) ==
    LET q == n \div d
        r == n % d
    IN  IF 2 * r < d THEN q
        ELSE IF 2 * r > d THEN q + 1
        ELSE IF q % 2 = 0 THEN q ELSE q + 1

\* None, for an optional lane or an optional number.
None == -1

\* Lanes of the ring are 0 .. NumLanes - 1.
NumLanes == 8

Lanes == 0 .. (NumLanes - 1)

-----------------------------------------------------------------------------
(* Slide geometry resolver *)

simai_slide_patterns ==
    {"-", "^", ">", "<", "p", "q", "s", "z", "v", "pp", "qq", "V", "w"}

\* simai_slide_dict.get(pattern): the code, or None.
simai_slide_dict(pattern) ==
    CASE pattern = "-" -> 1
      [] pattern = "p" -> 4
      [] pattern = "q" -> 5
      [] pattern = "s" -> 6
      [] pattern = "z" -> 7
      [] pattern = "v" -> 8
      [] pattern = "pp" -> 9
      [] pattern = "qq" -> 10
      [] pattern = "w" -> 13
      [] OTHER -> None

\* inv_slide_dict.get(code): the pattern, or "" for None.
inv_slide_dict(code) ==
    CASE code = 1 -> "-"
      [] code = 4 -> "p"
      [] code = 5 -> "q"
      [] code = 6 -> "s"
      [] code = 7 -> "z"
      [] code = 8 -> "v"
      [] code = 9 -> "pp"
      [] code = 10 -> "qq"
      [] code = 13 -> "w"
      [] OTHER -> ""

top_list == {0, 1, 6, 7}

slide_distance(start_position, end_position, is_cw) ==
    IF is_cw
    THEN (IF start_position >= end_position
          THEN end_position + NumLanes ELSE end_position) - start_position
    ELSE (IF start_position <= end_position
          THEN start_position + NumLanes ELSE start_position) - end_position

\* The wrong comparison: the longer arc is taken for end < start.
slide_is_cw_mutant(start_position, end_position) ==
    LET diff == Abs(end_position - start_position)
        other_diff == Abs(NumLanes - diff)
    IN  IF diff = 4 THEN [ok |-> FALSE, cw |-> FALSE]
        ELSE IF (end_position > start_position /\ diff > other_diff)
                \/ (end_position < start_position /\ diff > other_diff)
             THEN [ok |-> TRUE, cw |-> FALSE]
             ELSE [ok |-> TRUE, cw |-> TRUE]

\* ok = FALSE: ValueError("Can't choose direction for a 180 degree angle.")
slide_is_cw(start_position, end_position) ==
    LET diff == Abs(end_position - start_position)
        other_diff == Abs(NumLanes - diff)
    IN  IF diff = 4 THEN [ok |-> FALSE, cw |-> FALSE]
        ELSE IF (end_position > start_position /\ diff > other_diff)
                \/ (end_position < start_position /\ diff < other_diff)
             THEN [ok |-> TRUE, cw |-> FALSE]
             ELSE [ok |-> TRUE, cw |-> TRUE]

\* Codes 2 and 3 swapped in the ambiguous-arc branch (is_cw taken from 2).
simai_pattern_from_int_mutant(pattern, start_position, end_position) ==
    LET dict_result == inv_slide_dict(pattern)
    IN  IF dict_result # ""
        THEN [ok |-> TRUE, pattern |-> dict_result, reflect_position |-> None]
        ELSE IF pattern \in {2, 3}
        THEN LET is_cw == (pattern = 2)
                 distance == slide_distance(start_position, end_position, is_cw)
             IN  IF distance <= 3
                 THEN [ok |-> TRUE, pattern |-> "^", reflect_position |-> None]
                 ELSE IF (start_position \in top_list /\ is_cw)
                         \/ ~(start_position \in top_list \/ is_cw)
                 THEN [ok |-> TRUE, pattern |-> ">", reflect_position |-> None]
                 ELSE [ok |-> TRUE, pattern |-> "<", reflect_position |-> None]
        ELSE IF pattern \in {11, 12}
        THEN LET r == IF pattern = 11
                      THEN (IF start_position - 2 < 0
                            THEN start_position - 2 + NumLanes
                            ELSE start_position - 2)
                      ELSE (IF start_position + 2 > 7
                            THEN start_position + 2 - NumLanes
                            ELSE start_position + 2)
             IN  [ok |-> TRUE, pattern |-> "V", reflect_position |-> r]
        ELSE [ok |-> FALSE, pattern |-> "", reflect_position |-> None]

\* ok = FALSE: ValueError("Unknown pattern: ...")
simai_pattern_from_int(pattern, start_position, end_position) ==
    LET dict_result == inv_slide_dict(pattern)
    IN  IF dict_result # ""
        THEN [ok |-> TRUE, pattern |-> dict_result, reflect_position |-> None]
        ELSE IF pattern \in {2, 3}
        THEN LET is_cw == (pattern = 3)
                 distance == slide_distance(start_position, end_position, is_cw)
             IN  IF distance <= 3
                 THEN [ok |-> TRUE, pattern |-> "^", reflect_position |-> None]
                 ELSE IF (start_position \in top_list /\ is_cw)
                         \/ ~(start_position \in top_list \/ is_cw)
                 THEN [ok |-> TRUE, pattern |-> ">", reflect_position |-> None]
                 ELSE [ok |-> TRUE, pattern |-> "<", reflect_position |-> None]
        ELSE IF pattern \in {11, 12}
        THEN LET r == IF pattern = 11
                      THEN (IF start_position - 2 < 0
                            THEN start_position - 2 + NumLanes
                            ELSE start_position - 2)
                      ELSE (IF start_position + 2 > 7
                            THEN start_position + 2 - NumLanes
                            ELSE start_position + 2)
             IN  [ok |-> TRUE, pattern |-> "V", reflect_position |-> r]
        ELSE [ok |-> FALSE, pattern |-> "", reflect_position |-> None]

\* The result of simai_pattern_to_int on a slide with these fields:
\* ok = FALSE when slide_is_cw raises; code = None when the function returns None.
simai_pattern_to_int(slide_note) ==
    LET pattern == slide_note.pattern
        dict_result == simai_slide_dict(pattern)
        is_top == slide_note.position \in top_list
    IN  IF pattern \notin simai_slide_patterns THEN [ok |-> TRUE, code |-> None]
        ELSE IF dict_result # None THEN [ok |-> TRUE, code |-> dict_result]
        ELSE IF pattern = "^"
        THEN LET c == slide_is_cw(slide_note.position, slide_note.end_position)
             IN  IF ~c.ok THEN [ok |-> FALSE, code |-> None]
                 ELSE [ok |-> TRUE, code |-> IF c.cw THEN 3 ELSE 2]
        ELSE IF pattern = ">"
        THEN [ok |-> TRUE, code |-> IF is_top THEN 3 ELSE 2]
        ELSE IF pattern = "<"
        THEN [ok |-> TRUE, code |-> IF is_top THEN 2 ELSE 3]
        ELSE \* pattern = "V"; without a reflect position abs(None - int) raises
             LET c == slide_is_cw(slide_note.position, slide_note.reflect_position)
             IN  IF slide_note.reflect_position = None \/ ~c.ok
                 THEN [ok |-> FALSE, code |-> None]
                 ELSE [ok |-> TRUE, code |-> IF c.cw THEN 12 ELSE 11]

-----------------------------------------------------------------------------
(* Event/Note model: the constructors.  A constructor's result is          *)
(* [ok, note]; ok = FALSE is a raised exception.                           *)

\* Ticks per measure: the constructors round to 1/Grid of a measure.
Grid == 10000

\* round(10000.0 * x) for the rational x = <<n, d>>, d > 0.
RoundTicks(x) == RoundDiv(Grid * x[1], x[2])

\* The default slide delay, 0.25 measure, in ticks.
DefaultDelay == 2500

\* One record shape for every note; the fields a variant lacks hold these.
BlankNote ==
    [note_type |-> "", measure |-> 0, position |-> 0, duration |-> 0,
     end_position |-> None, pattern |-> "", delay |-> 0,
     reflect_position |-> None, zone |-> "", is_firework |-> FALSE]

SimaiHoldNote(measure, position, duration, is_ex) ==
    [ok |-> TRUE,
     note |-> [BlankNote EXCEPT
                 !.note_type = IF is_ex THEN "ex_hold" ELSE "hold",
                 !.measure = RoundTicks(measure),
                 !.position = position,
                 !.duration = RoundTicks(duration)]]

SimaiTapNote(measure, position, is_break, is_star, is_ex) ==
    [ok |-> TRUE,
     note |-> [BlankNote EXCEPT
                 !.note_type =
                     IF is_ex /\ is_star THEN "ex_star"
                     ELSE IF is_ex /\ ~is_star THEN "ex_tap"
                     ELSE IF is_star /\ is_break THEN "break_star"
                     ELSE IF is_star /\ ~is_break THEN "star"
                     ELSE IF is_break THEN "break_tap"
                     ELSE "tap",
                 !.measure = RoundTicks(measure),
                 !.position = position]]

SimaiSlideNote(measure, start_position, end_position, duration, pattern, delay, reflect_position) ==
    LET m == RoundTicks(measure)
        dur == RoundTicks(duration)
        del == RoundTicks(delay)
    IN  IF dur <= 0 THEN [ok |-> FALSE, note |-> BlankNote]
        ELSE IF del < 0 THEN [ok |-> FALSE, note |-> BlankNote]
        ELSE IF pattern \notin simai_slide_patterns
        THEN [ok |-> FALSE, note |-> BlankNote]
        ELSE IF pattern = "V" /\ reflect_position = None
        THEN [ok |-> FALSE, note |-> BlankNote]
        ELSE [ok |-> TRUE,
              note |-> [BlankNote EXCEPT
                          !.note_type = "complete_slide",
                          !.measure = m,
                          !.position = start_position,
                          !.duration = dur,
                          !.end_position = end_position,
                          !.pattern = pattern,
                          !.delay = del,
                          !.reflect_position = reflect_position]]

SimaiTouchTapNote(measure, position, zone, is_firework) ==
    [ok |-> TRUE,
     note |-> [BlankNote EXCEPT
                 !.note_type = "touch_tap",
                 !.measure = RoundTicks(measure),
                 !.position = position,
                 !.zone = zone,
                 !.is_firework = is_firework]]

SimaiTouchHoldNote(measure, position, zone, duration, is_firework) ==
    [ok |-> TRUE,
     note |-> [BlankNote EXCEPT
                 !.note_type = "touch_hold",
                 !.measure = RoundTicks(measure),
                 !.position = position,
                 !.zone = zone,
                 !.duration = RoundTicks(duration),
                 !.is_firework = is_firework]]

\* bpm is a count of 1/100 bpm.
SimaiBPM(measure, bpm) ==
    IF bpm <= 0 THEN [ok |-> FALSE, event |-> [measure |-> 0, bpm |-> 0]]
    ELSE [ok |-> TRUE, event |-> [measure |-> RoundTicks(measure), bpm |-> bpm]]

-----------------------------------------------------------------------------
(* Sequence helpers *)

RECURSIVE SeqMax(_, _)
\* max(acc, every element of s)
SeqMax(s, acc) ==
    IF s = <<>> THEN acc ELSE SeqMax(Tail(s), Max(acc, Head(s)))

RECURSIVE SortedSeq(_)
\* list(set) followed by sort(): the elements of the set S, ascending.
SortedSeq(S) ==
    IF S = {} THEN <<>>
    ELSE LET m == CHOOSE x \in S : \A y \in S : x <= y
         IN  <<m>> \o SortedSeq(S \ {m})

\* "," * n and the like: n copies of item (none for n <= 0).
Repeat(item, n) == [i \in 1 .. n |-> item]

-----------------------------------------------------------------------------
(* Chart builder: SimaiChart.  The chart is the pair (notes, bpms).        *)

\* get_bpm(measure): the tempo, or None.
get_bpm(bs, measure) ==
    LET bpm_measures == SortedSeq({bs[i].measure : i \in 1 .. Len(bs)})
        \* the loop stops at the first marker measure beyond the query
        below == {i \in 1 .. Len(bpm_measures) :
                    \A j \in 1 .. i : bpm_measures[j] <= measure}
        previous_measure ==
            IF below = {} THEN 0
            ELSE bpm_measures[CHOOSE i \in below : \A j \in below : j <= i]
        bpm_result == SelectSeq(bs, LAMBDA b : b.measure = previous_measure)
    IN  IF Len(bpm_result) = 0 THEN None ELSE bpm_result[1].bpm

-----------------------------------------------------------------------------
(* Fractions: Fraction(x).limit_denominator(1000) *)

\* The greatest denominator a written fraction may have.
MaxDenominator == 1000

RECURSIVE LimitLoop(_, _, _, _, _, _)
\* The continued-fraction loop of limit_denominator: the last two
\* convergents <<p0, q0, p1, q1>> with q1 <= MaxDenominator.
LimitLoop(p0, q0, p1, q1, n, d) ==
    LET a == n \div d
        q2 == q0 + a * q1
    IN  IF q2 > MaxDenominator THEN <<p0, q0, p1, q1>>
        ELSE LimitLoop(p1, q1, p0 + a * p1, q2, d, n - a * d)

\* The end of limit_denominator: of the convergent bound2 = c[3] / c[4] and
\* the semiconvergent bound1, the one closer to n / d; bound2 on a tie.
ClosestBound(c, n, d) ==
    LET k == (MaxDenominator - c[2]) \div c[4]
        b1n == c[1] + k * c[3]
        b1d == c[2] + k * c[4]
        g1 == Gcd(b1n, b1d)
    IN  IF Abs(c[3] * d - n * c[4]) * b1d <= Abs(b1n * d - n * b1d) * c[4]
        THEN [numerator |-> c[3], denominator |-> c[4]]
        ELSE [numerator |-> b1n \div g1, denominator |-> b1d \div g1]

\* limit_denominator of the fraction n / d in lowest terms
LimitReduced(n, d) ==
    IF d <= MaxDenominator THEN [numerator |-> n, denominator |-> d]
    ELSE ClosestBound(LimitLoop(0, 1, 1, 0, n, d), n, d)

\* Fraction(n / d).limit_denominator(1000), d > 0: [numerator, denominator]
\* of the closest fraction whose denominator is at most 1000.
LimitDenominator(n, d) == LimitReduced(n \div Gcd(n, d), d \div Gcd(n, d))

\* The tuple (whole, divisor, amount) of a difference in ticks and the
\* fraction of its fractional part.
RestTuple(difference, decimal_fraction) ==
    [ok |-> TRUE, none |-> FALSE,
     whole |-> difference \div Grid,
     divisor |-> decimal_fraction.denominator,
     amount |-> decimal_fraction.numerator]

\* A variant that loses the whole measures of the difference.
simai_get_rest_mutant(current_measure, next_measure) ==
    IF next_measure < current_measure
    THEN [ok |-> FALSE, none |-> TRUE, whole |-> 0, divisor |-> 0, amount |-> 0]
    ELSE IF next_measure = current_measure
    THEN [ok |-> TRUE, none |-> TRUE, whole |-> 0, divisor |-> 0, amount |-> 0]
    ELSE RestTuple((next_measure - current_measure) % Grid,
                   LimitDenominator((next_measure - current_measure) % Grid, Grid))

\* simai_get_rest(current_measure, next_measure), both in ticks:
\* ok = FALSE is the ValueError, none = TRUE is the result None.
simai_get_rest(current_measure, next_measure) ==
    IF next_measure < current_measure
    THEN [ok |-> FALSE, none |-> TRUE, whole |-> 0, divisor |-> 0, amount |-> 0]
    ELSE IF next_measure = current_measure
    THEN [ok |-> TRUE, none |-> TRUE, whole |-> 0, divisor |-> 0, amount |-> 0]
    ELSE RestTuple(next_measure - current_measure,
                   LimitDenominator((next_measure - current_measure) % Grid, Grid))

-----------------------------------------------------------------------------
(* Notation text.  A text is a sequence of lexical items, one per token    *)
(* the exporter writes: its separators and the tokens of a fragment, each  *)
(* token carrying what its characters say (lane numbers are 1-based, a     *)
(* duration is the pair den:num, an equivalent tempo has two decimals).    *)

Comma == [k |-> ","]

Newline == [k |-> "nl"]

Terminator == [k |-> "E"]

Slash == [k |-> "/"]

\* "({})".format(bpm)
BpmToken(bpm) == [k |-> "bpm", value |-> bpm]

\* "{" + str(divisor) + "}"
DivisorToken(divisor) == [k |-> "divisor", value |-> divisor]

\* "{}{}".format(position + 1, modifier_string)
TapToken(position, modifier) ==
    [k |-> "tap", lane |-> position + 1, modifier |-> modifier]

\* "{}{}[{}:{}]".format(position + 1, modifier_string, denominator, numerator)
HoldToken(position, modifier, frac) ==
    [k |-> "hold", lane |-> position + 1, modifier |-> modifier,
     den |-> frac.denominator, num |-> frac.numerator]

\* "{}{}{}".format(zone, position + 1, modifier_string)
TouchTapToken(zone, position, modifier) ==
    [k |-> "touch_tap", zone |-> zone, index |-> position + 1,
     modifier |-> modifier]

\* "{}{}[{}:{}]".format(zone, modifier_string, denominator, numerator):
\* the position is not written.
TouchHoldToken(zone, modifier, frac) ==
    [k |-> "touch_hold", zone |-> zone, index |-> None, modifier |-> modifier,
     den |-> frac.denominator, num |-> frac.numerator]

\* "{}{}{}{}[...]": start is the lane number, or 0 for "*"; reflect is the
\* lane number simai_slide_to_pattern_str appends to "V", or None;
\* equivalent_bpm is the "{:.2f}" tempo in 1/100 bpm, or None without "#".
SlideToken(start, modifier, slide_note, equivalent_bpm, frac) ==
    [k |-> "slide", start |-> start, modifier |-> modifier,
     pattern |-> slide_note.pattern,
     reflect |-> IF slide_note.pattern = "V"
                 THEN slide_note.reflect_position + 1 ELSE None,
     end |-> slide_note.end_position + 1,
     equivalent_bpm |-> equivalent_bpm,
     den |-> frac.denominator, num |-> frac.numerator]

-----------------------------------------------------------------------------
(* Exporter: simai_convert_to_fragment *)

TapTypes == {"tap", "break_tap", "ex_tap", "star", "break_star", "ex_star"}

HoldTypes == {"hold", "ex_hold"}

\* Python's order of the pattern strings (by code point).
PatternRank(pattern) ==
    CASE pattern = "-" -> 1
      [] pattern = "<" -> 2
      [] pattern = ">" -> 3
      [] pattern = "V" -> 4
      [] pattern = "^" -> 5
      [] pattern = "p" -> 6
      [] pattern = "pp" -> 7
      [] pattern = "q" -> 8
      [] pattern = "qq" -> 9
      [] pattern = "s" -> 10
      [] pattern = "v" -> 11
      [] pattern = "w" -> 12
      [] pattern = "z" -> 13
      [] OTHER -> 0

\* key(a) <= key(b) for the key (position, end_position, pattern)
SlideKeyLeq(a, b) ==
    \/ a.position < b.position
    \/ /\ a.position = b.position
       /\ \/ a.end_position < b.end_position
          \/ /\ a.end_position = b.end_position
             /\ PatternRank(a.pattern) <= PatternRank(b.pattern)

RECURSIVE InsertSlide(_, _)
\* x put behind every element of the sorted s whose key is not greater
InsertSlide(s, x) ==
    IF s = <<>> THEN <<x>>
    ELSE IF SlideKeyLeq(Head(s), x) THEN <<Head(s)>> \o InsertSlide(Tail(s), x)
    ELSE <<x>> \o s

RECURSIVE SortSlides(_)
\* slide_notes.sort(key=...): a stable sort
SortSlides(s) ==
    IF s = <<>> THEN <<>>
    ELSE InsertSlide(SortSlides(SubSeq(s, 1, Len(s) - 1)), s[Len(s)])

\* fragment, with "/" first when counter > 0, then the token
WithSlash(fragment, counter, token) ==
    fragment \o (IF counter > 0 THEN <<Slash>> ELSE <<>>) \o <<token>>

RECURSIVE TapLoop(_, _, _, _)
\* for tap_note in tap_notes: ...   The result is <<fragment, counter>>.
TapLoop(tap_notes, slide_notes, fragment, counter) ==
    IF tap_notes = <<>> THEN <<fragment, counter>>
    ELSE LET tap_note == Head(tap_notes)
             note_type == tap_note.note_type
             produced_slides ==
                 SelectSeq(slide_notes, LAMBDA sl : sl.position = tap_note.position)
         IN  IF note_type \in {"tap", "break_tap", "ex_tap"}
             THEN TapLoop(Tail(tap_notes), slide_notes,
                          WithSlash(fragment, counter,
                                    TapToken(tap_note.position,
                                             IF note_type = "break_tap" THEN "b"
                                             ELSE IF note_type = "ex_tap" THEN "x"
                                             ELSE "")),
                          counter + 1)
             ELSE IF Len(produced_slides) > 0
             THEN TapLoop(Tail(tap_notes), slide_notes, fragment, counter)
             ELSE TapLoop(Tail(tap_notes), slide_notes,
                          WithSlash(fragment, counter,
                                    TapToken(tap_note.position,
                                             IF note_type = "break_star" THEN "b$"
                                             ELSE IF note_type = "ex_star" THEN "x$"
                                             ELSE "$")),
                          counter + 1)

RECURSIVE HoldLoop(_, _, _)
HoldLoop(hold_notes, fragment, counter) ==
    IF hold_notes = <<>> THEN <<fragment, counter>>
    ELSE LET hold_note == Head(hold_notes)
             frac == LimitDenominator(hold_note.duration, Grid)
         IN  HoldLoop(Tail(hold_notes),
                      WithSlash(fragment, counter,
                                HoldToken(hold_note.position,
                                          IF hold_note.note_type = "ex_hold"
                                          THEN "hx" ELSE "h",
                                          frac)),
                      counter + 1)

RECURSIVE TouchTapLoop(_, _, _)
TouchTapLoop(touch_tap_notes, fragment, counter) ==
    IF touch_tap_notes = <<>> THEN <<fragment, counter>>
    ELSE LET touch_tap_note == Head(touch_tap_notes)
         IN  TouchTapLoop(Tail(touch_tap_notes),
                          WithSlash(fragment, counter,
                                    TouchTapToken(touch_tap_note.zone,
                                                  touch_tap_note.position,
                                                  IF touch_tap_note.is_firework
                                                  THEN "f" ELSE "")),
                          counter + 1)

RECURSIVE TouchHoldLoop(_, _, _)
TouchHoldLoop(touch_hold_notes, fragment, counter) ==
    IF touch_hold_notes = <<>> THEN <<fragment, counter>>
    ELSE LET touch_hold_note == Head(touch_hold_notes)
             frac == LimitDenominator(touch_hold_note.duration, Grid)
         IN  TouchHoldLoop(Tail(touch_hold_notes),
                           WithSlash(fragment, counter,
                                     TouchHoldToken(touch_hold_note.zone,
                                                    IF touch_hold_note.is_firework
                                                    THEN "hf" ELSE "h",
                                                    frac)),
                           counter + 1)

\* round(current_bpm * scale * 10000.0) / 10000.0 written with "{:.2f}":
\* the equivalent tempo in 1/100 bpm, for current_bpm in 1/100 bpm and a
\* delay in ticks, scale = 0.25 / delay.
EquivalentBpm(current_bpm, delay) ==
    LET whole == (current_bpm * DefaultDelay) \div delay
        rest == (current_bpm * DefaultDelay) % delay
        rounded == 100 * whole + RoundDiv(100 * rest, delay)
    IN  RoundDiv(rounded, 100)

RECURSIVE SlideLoop(_, _, _, _, _, _)
\* for slide_note in slide_notes: ...   The result is [ok, fragment];
\* ok = FALSE when the loop raises (stars[0] of an empty list, a division
\* by a zero delay, a tempo of None, 'V' without a reflect position).
SlideLoop(slide_notes, tap_notes, fragment, counter, positions, current_bpm) ==
    IF slide_notes = <<>> THEN [ok |-> TRUE, fragment |-> fragment]
    ELSE LET slide_note == Head(slide_notes)
             stars == SelectSeq(tap_notes,
                                LAMBDA t : t.position = slide_note.position)
             seen == slide_note.position \in positions
             modifier_string ==
                 IF Len(stars) = 0 /\ ~seen THEN "?"
                 ELSE IF stars[1].note_type = "break_star" /\ ~seen THEN "b"
                 ELSE IF stars[1].note_type = "ex_star" /\ ~seen THEN "x"
                 ELSE ""
             start_position == IF seen THEN 0 ELSE slide_note.position + 1
             scaled == slide_note.delay # DefaultDelay
             token ==
                 IF scaled
                 THEN SlideToken(start_position, modifier_string, slide_note,
                                 EquivalentBpm(current_bpm, slide_note.delay),
                                 LimitDenominator(slide_note.duration,
                                                  4 * slide_note.delay))
                 ELSE SlideToken(start_position, modifier_string, slide_note,
                                 None,
                                 LimitDenominator(slide_note.duration, Grid))
         IN  IF Len(stars) = 0 /\ seen
             THEN [ok |-> FALSE, fragment |-> fragment]
             ELSE IF slide_note.pattern = "V" /\ slide_note.reflect_position = None
             THEN [ok |-> FALSE, fragment |-> fragment]
             ELSE IF scaled /\ (slide_note.delay = 0 \/ current_bpm = None)
             THEN [ok |-> FALSE, fragment |-> fragment]
             ELSE SlideLoop(Tail(slide_notes), tap_notes,
                            fragment
                              \o (IF counter > 0 /\ ~seen THEN <<Slash>> ELSE <<>>)
                              \o <<token>>,
                            counter + 1,
                            positions \cup {slide_note.position},
                            current_bpm)

\* simai_convert_to_fragment(events, current_bpm, divisor) for the events
\* given as the notes and the tempo markers of one measure: [ok, fragment].
simai_convert_to_fragment(event_notes, event_bpms, current_bpm, divisor) ==
    LET tap_notes == SelectSeq(event_notes, LAMBDA n : n.note_type \in TapTypes)
        hold_notes == SelectSeq(event_notes, LAMBDA n : n.note_type \in HoldTypes)
        touch_tap_notes ==
            SelectSeq(event_notes, LAMBDA n : n.note_type = "touch_tap")
        touch_hold_notes ==
            SelectSeq(event_notes, LAMBDA n : n.note_type = "touch_hold")
        slide_notes ==
            SortSlides(SelectSeq(event_notes,
                                 LAMBDA n : n.note_type = "complete_slide"))
        head == (IF Len(event_bpms) = 1
                 THEN <<BpmToken(event_bpms[1].bpm)>> ELSE <<>>)
                \o (IF divisor # None THEN <<DivisorToken(divisor)>> ELSE <<>>)
        taps == TapLoop(tap_notes, slide_notes, head, 0)
        holds == HoldLoop(hold_notes, taps[1], taps[2])
        touch_taps == TouchTapLoop(touch_tap_notes, holds[1], holds[2])
        touch_holds == TouchHoldLoop(touch_hold_notes, touch_taps[1], touch_taps[2])
    IN  IF Len(event_notes) + Len(event_bpms) = 0
        THEN [ok |-> TRUE, fragment |-> <<>>]
        ELSE IF Len(event_bpms) > 1 THEN [ok |-> FALSE, fragment |-> <<>>]
        ELSE SlideLoop(slide_notes, tap_notes, touch_holds[1], touch_holds[2],
                       {}, current_bpm)

-----------------------------------------------------------------------------
(* Exporter: SimaiChart.export *)

\* int(measure) for a measure in ticks: truncation towards zero.
IntPart(measure) ==
    IF measure >= 0 THEN measure \div Grid ELSE -((-measure) \div Grid)

\* The measure where a hold or a slide ends.
EndMeasure(note) ==
    IF note.note_type = "complete_slide"
    THEN note.measure + note.delay + note.duration
    ELSE note.measure + note.duration

\* The greatest end measure of the holds and slides among nts, and last_end.
LastEnd(nts, last_end) ==
    LET hold_slides ==
            SelectSeq(nts, LAMBDA n : n.note_type \in
                {"hold", "ex_hold", "touch_hold", "complete_slide"})
        ends == [j \in 1 .. Len(hold_slides) |-> EndMeasure(hold_slides[j])]
    IN  SeqMax(ends, last_end)

\* What the loop body makes of the rest (whole, post_div, post_amount):
\* [whole, post_div, post_amount, current_divisor, is_move_whole].
MoveBy(rest) ==
    [whole |-> rest.whole, post_div |-> rest.divisor,
     post_amount |-> rest.amount,
     current_divisor |-> IF rest.whole > 0 THEN 1 ELSE rest.divisor,
     is_move_whole |-> rest.whole > 0]

\* The rest that follows the fragment of measure i, as the loop body
\* computes it; post_div = None where the code has None.
ExportRest(measures, i, last_end, previous_divisor) ==
    IF i + 1 <= Len(measures)
    THEN MoveBy(simai_get_rest(measures[i], measures[i + 1]))
    ELSE IF last_end > measures[i]
    THEN MoveBy(simai_get_rest(measures[i], last_end))
    ELSE [whole |-> 0, post_div |-> None, post_amount |-> 0,
          current_divisor |-> previous_divisor, is_move_whole |-> FALSE]

\* The loop's variables between two measures.
ExportState(ok, previous_measure_whole, last_end, previous_divisor, result) ==
    [ok |-> ok, previous_measure_whole |-> previous_measure_whole,
     last_end |-> last_end, previous_divisor |-> previous_divisor,
     result |-> result]

\* The end of the loop body: the line break, the fragment frag and the rest
\* r appended to the result.
ExportAppend(st, current_measure, new_end, r, frag) ==
    LET line_break == IntPart(current_measure) > st.previous_measure_whole
        changed == r.post_div # None /\ r.post_div # r.current_divisor
        rests ==
            (IF r.is_move_whole THEN Repeat(Comma, r.whole) ELSE <<>>)
            \o (IF changed THEN <<DivisorToken(r.post_div)>> ELSE <<>>)
            \o (IF r.post_div # None THEN Repeat(Comma, r.post_amount)
                ELSE <<>>)
    IN  ExportState(frag.ok,
                    IF line_break THEN IntPart(current_measure)
                    ELSE st.previous_measure_whole,
                    new_end,
                    IF changed THEN r.post_div ELSE r.current_divisor,
                    st.result \o (IF line_break THEN <<Newline>> ELSE <<>>)
                              \o frag.fragment \o rests)

\* The middle of the loop body: the fragment of current_measure under the
\* rest r that follows it.
ExportFragment(ns, bs, st, current_measure, new_end, r) ==
    ExportAppend(st, current_measure, new_end, r,
                 simai_convert_to_fragment(
                     SelectSeq(ns, LAMBDA n : n.measure = current_measure),
                     SelectSeq(bs, LAMBDA b : b.measure = current_measure),
                     get_bpm(bs, current_measure),
                     IF r.current_divisor # st.previous_divisor
                     THEN r.current_divisor ELSE None))

\* The end measure as the loop body updates it at current_measure.
NewEnd(ns, st, current_measure) ==
    LastEnd(SelectSeq(ns, LAMBDA n : n.measure = current_measure), st.last_end)

\* The loop body for measure i.
ExportStep(ns, bs, measures, i, st) ==
    ExportFragment(ns, bs, st, measures[i], NewEnd(ns, st, measures[i]),
                   ExportRest(measures, i, NewEnd(ns, st, measures[i]),
                              st.previous_divisor))

RECURSIVE ExportLoop(_, _, _, _, _)
\* for (i, current_measure) in enumerate(measures): ...  from index i on,
\* and the final ",\nE": [ok, result].
ExportLoop(ns, bs, measures, i, st) ==
    IF ~st.ok THEN [ok |-> FALSE, result |-> <<>>]
    ELSE IF i > Len(measures)
    THEN [ok |-> TRUE, result |-> st.result \o <<Comma, Newline, Terminator>>]
    ELSE ExportLoop(ns, bs, measures, i + 1, ExportStep(ns, bs, measures, i, st))

\* export(): [ok, result]; ok = FALSE is a raised exception.
export(ns, bs) ==
    IF Len(bs) = 0 THEN [ok |-> FALSE, result |-> <<>>]
    ELSE IF get_bpm(bs, Grid) = None THEN [ok |-> FALSE, result |-> <<>>]
    ELSE ExportLoop(ns, bs,
                    SortedSeq({ns[j].measure : j \in 1 .. Len(ns)}
                              \cup {bs[j].measure : j \in 1 .. Len(bs)}),
                    1, ExportState(TRUE, 1, Grid, None, <<>>))

-----------------------------------------------------------------------------
(* Chart builder: the insertion operations.  Each result is the new list   *)
(* and ok; ok = FALSE is the constructor's exception, the list unchanged.  *)

Inserted(ns, c) ==
    [ok |-> c.ok, notes |-> IF c.ok THEN Append(ns, c.note) ELSE ns]

add_tap(ns, measure, position, is_break, is_star, is_ex) ==
    Inserted(ns, SimaiTapNote(measure, position, is_break, is_star, is_ex))

add_hold(ns, measure, position, duration, is_ex) ==
    Inserted(ns, SimaiHoldNote(measure, position, duration, is_ex))

add_slide(ns, measure, start_position, end_position, duration, pattern, delay, reflect_position) ==
    Inserted(ns, SimaiSlideNote(measure, start_position, end_position,
                                duration, pattern, delay, reflect_position))

add_touch_tap(ns, measure, position, zone, is_firework) ==
    Inserted(ns, SimaiTouchTapNote(measure, position, zone, is_firework))

add_touch_hold(ns, measure, position, zone, duration, is_firework) ==
    Inserted(ns, SimaiTouchHoldNote(measure, position, zone, duration, is_firework))

set_bpm(bs, measure, bpm) ==
    LET c == SimaiBPM(measure, bpm)
    IN  [ok |-> c.ok, bpms |-> IF c.ok THEN Append(bs, c.event) ELSE bs]

-----------------------------------------------------------------------------
(* Tokenizer: simai_parse_fragment, the grammar engine the parser calls.   *)
(* It turns the tokens of one fragment into tagged records: lanes become   *)
(* 0-based buttons, a duration spec [den:num] becomes num / den measures,  *)
(* "*" takes the start lane of the slide before it.  A modifier of None    *)
(* is the empty string.                                                    *)

\* The record of one token; prev_start is the start button of the last slide.
TokenEvent(item, prev_start) ==
    CASE item.k = "bpm" -> [event_type |-> "bpm", value |-> item.value]
      [] item.k = "divisor" -> [event_type |-> "divisor", value |-> item.value]
      [] item.k = "tap" ->
            [event_type |-> "tap", button |-> item.lane - 1,
             modifier |-> item.modifier]
      [] item.k = "hold" ->
            [event_type |-> "hold", button |-> item.lane - 1,
             modifier |-> IF item.modifier = "hx" THEN "x" ELSE "",
             duration |-> <<item.num, item.den>>]
      [] item.k = "slide" ->
            [event_type |-> "slide",
             start_button |-> IF item.start = 0 THEN prev_start
                              ELSE item.start - 1,
             modifier |-> item.modifier,
             pattern |-> item.pattern,
             reflect_position |-> IF item.reflect = None THEN None
                                  ELSE item.reflect - 1,
             end_button |-> item.end - 1,
             duration |-> <<item.num, item.den>>,
             equivalent_bpm |-> item.equivalent_bpm]
      [] item.k = "touch_tap" ->
            [event_type |-> "touch_tap",
             location |-> <<item.zone, item.index>>,
             modifier |-> item.modifier]
      [] item.k = "touch_hold" ->
            [event_type |-> "touch_hold",
             location |-> IF item.index = None THEN <<item.zone>>
                          ELSE <<item.zone, item.index>>,
             modifier |-> IF item.modifier = "hf" THEN "f" ELSE "",
             duration |-> <<item.num, item.den>>]

RECURSIVE TokenEvents(_, _)
TokenEvents(items, prev_start) ==
    IF items = <<>> THEN <<>>
    ELSE LET item == Head(items)
         IN  IF item.k = "/" THEN TokenEvents(Tail(items), prev_start)
             ELSE LET e == TokenEvent(item, prev_start)
                  IN  <<e>> \o TokenEvents(Tail(items),
                                           IF item.k = "slide" THEN e.start_button
                                           ELSE prev_start)

\* A token the grammar has no rule for: a duration spec with a denominator
\* of zero or a negative number, a "*" with no slide before it.
BadToken(item) ==
    \/ item.k \in {",", "nl", "E"}
    \/ item.k \in {"hold", "touch_hold", "slide"} /\ (item.den <= 0 \/ item.num < 0)

\* simai_parse_fragment(fragment): [ok, events]
simai_parse_fragment(fragment) ==
    IF \/ \E i \in 1 .. Len(fragment) : BadToken(fragment[i])
       \/ \E i \in 1 .. Len(fragment) :
             /\ fragment[i].k = "slide" /\ fragment[i].start = 0
             /\ \A j \in 1 .. (i - 1) : fragment[j].k # "slide"
    THEN [ok |-> FALSE, events |-> <<>>]
    ELSE [ok |-> TRUE, events |-> TokenEvents(fragment, None)]

-----------------------------------------------------------------------------
(* Fragment parser: simai_parse_chart *)

\* The parser's starting tempo, 120 bpm, in 1/100 bpm.
InitialBpm == 12000

\* The parser's starting divisor.
InitialDivisor == 4

\* chart = "".join(chart.split()): the text without its whitespace
StripWhitespace(chart) == SelectSeq(chart, LAMBDA item : item.k # "nl")

\* chart.split(","): the pieces between the commas, empty ones included
Split(chart) ==
    LET commas == SelectSeq([i \in 1 .. Len(chart) |-> i],
                            LAMBDA i : chart[i].k = ",")
    IN  [k \in 1 .. (Len(commas) + 1) |->
            SubSeq(chart,
                   IF k = 1 THEN 1 ELSE commas[k - 1] + 1,
                   IF k > Len(commas) THEN Len(chart) ELSE commas[k] - 1)]

\* A variant that advances by the starting divisor whatever the divisor in
\* effect: x + 1 / 4.
AddBeat_mutant(x, divisor) ==
    LET n == x[1] * InitialDivisor + x[2]
        d == x[2] * InitialDivisor
        g == Gcd(n, d)
    IN  <<n \div g, d \div g>>

\* x + 1 / divisor for the rational x
AddBeat(x, divisor) ==
    LET n == x[1] * divisor + x[2]
        d == x[2] * divisor
        g == Gcd(n, d)
    IN  <<n \div g, d \div g>>

\* "b" in modifier, "x" in modifier, "$" in modifier
HasB(modifier) == modifier \in {"b", "b$", "bx", "bx$"}

HasX(modifier) == modifier \in {"x", "x$", "bx", "bx$"}

HasStar(modifier) == modifier \in {"$", "b$", "x$", "bx$"}

\* multiplier * value for multiplier = current_bpm / equivalent_bpm and the
\* rational value
Scaled(current_bpm, equivalent_bpm, value) ==
    LET g == Gcd(current_bpm, equivalent_bpm)
        n == (current_bpm \div g) * value[1]
        d == (equivalent_bpm \div g) * value[2]
        h == Gcd(n, d)
    IN  <<n \div h, d \div h>>

\* The parser's state between two records of a fragment.
ParserState(ok, ns, bs, current_bpm, current_divisor, star_positions) ==
    [ok |-> ok, notes |-> ns, bpms |-> bs, current_bpm |-> current_bpm,
     current_divisor |-> current_divisor, star_positions |-> star_positions]

\* One record applied at current_measure: the body of `for event in events`.
ApplyEvent(st, event, current_measure) ==
    LET event_type == event.event_type
        keep(ns) == ParserState(TRUE, ns, st.bpms, st.current_bpm,
                                st.current_divisor, st.star_positions)
        failed == [st EXCEPT !.ok = FALSE]
    IN  CASE event_type = "bpm" ->
            LET r == set_bpm(st.bpms, current_measure, event.value)
            IN  IF ~r.ok THEN failed
                ELSE [st EXCEPT !.bpms = r.bpms, !.current_bpm = event.value]
          [] event_type = "divisor" ->
            [st EXCEPT !.current_divisor = event.value]
          [] event_type = "tap" ->
            LET is_break == HasB(event.modifier)
                is_ex == ~is_break /\ HasX(event.modifier)
                is_star == HasStar(event.modifier)
            IN  keep(add_tap(st.notes, current_measure, event.button,
                             is_break, is_star, is_ex).notes)
          [] event_type = "hold" ->
            keep(add_hold(st.notes, current_measure, event.button,
                          event.duration, event.modifier = "x").notes)
          [] event_type = "slide" ->
            LET modifier == event.modifier
                is_break == modifier = "b"
                is_ex == modifier = "x"
                is_tapless == modifier \in {"?", "!", "$"}
                with_star == ~(is_tapless \/ event.start_button \in st.star_positions)
                ns1 == IF with_star
                       THEN add_tap(st.notes, current_measure, event.start_button,
                                    is_break, TRUE, is_ex).notes
                       ELSE st.notes
                stars1 == IF with_star
                          THEN st.star_positions \cup {event.start_button}
                          ELSE st.star_positions
                equivalent_bpm == event.equivalent_bpm
                duration == IF equivalent_bpm # None
                            THEN Scaled(st.current_bpm, equivalent_bpm, event.duration)
                            ELSE event.duration
                delay == IF equivalent_bpm # None
                         THEN Scaled(st.current_bpm, equivalent_bpm, <<1, 4>>)
                         ELSE <<1, 4>>
                r == add_slide(ns1, current_measure, event.start_button,
                               event.end_button, duration, event.pattern,
                               delay, event.reflect_position)
            IN  IF modifier \notin {"", "b", "x", "?", "!", "$"} THEN failed
                ELSE IF equivalent_bpm = 0 THEN [failed EXCEPT !.notes = ns1]
                ELSE IF ~r.ok THEN [failed EXCEPT !.notes = ns1]
                ELSE [st EXCEPT !.notes = r.notes, !.star_positions = stars1]
          [] event_type = "touch_tap" ->
            IF event.modifier \notin {"", "f"} THEN failed
            ELSE keep(add_touch_tap(st.notes, current_measure,
                                    IF Len(event.location) > 1
                                    THEN event.location[2] - 1 ELSE 0,
                                    event.location[1],
                                    event.modifier = "f").notes)
          [] event_type = "touch_hold" ->
            IF event.modifier \notin {"", "f"} THEN failed
            ELSE keep(add_touch_hold(st.notes, current_measure,
                                     IF Len(event.location) > 1
                                     THEN event.location[2] - 1 ELSE 0,
                                     event.location[1], event.duration,
                                     event.modifier = "f").notes)
          [] OTHER -> failed

RECURSIVE EventLoop(_, _, _)
\* for event in events: ...   It stops at the first exception.
EventLoop(st, events, current_measure) ==
    IF events = <<>> \/ ~st.ok THEN st
    ELSE EventLoop(ApplyEvent(st, Head(events), current_measure),
                   Tail(events), current_measure)

RECURSIVE FragmentLoop(_, _, _)
\* for fragment in fragments: ...   The result is the parser's last state.
FragmentLoop(st, fragments, current_measure) ==
    IF fragments = <<>> THEN st
    ELSE LET fragment == Head(fragments)
         IN  IF fragment = <<Terminator>> THEN st
             ELSE LET tokens == simai_parse_fragment(fragment)
                      st1 == IF fragment = <<>> THEN st
                             ELSE IF ~tokens.ok THEN [st EXCEPT !.ok = FALSE]
                             ELSE EventLoop([st EXCEPT !.star_positions = {}],
                                            tokens.events, current_measure)
                  IN  IF ~st1.ok \/ st1.current_divisor = 0
                      THEN [st1 EXCEPT !.ok = FALSE]
                      ELSE FragmentLoop(st1, Tail(fragments),
                                        AddBeat(current_measure,
                                                st1.current_divisor))

\* A variant that starts with one fragment a measure (divisor 1).
simai_parse_chart_mutant(chart) ==
    LET st == FragmentLoop(ParserState(TRUE, <<>>, <<>>, InitialBpm, 1, {}),
                           Split(StripWhitespace(chart)), <<1, 1>>)
    IN  [ok |-> st.ok, notes |-> st.notes, bpms |-> st.bpms]

\* simai_parse_chart(chart): [ok, notes, bpms]; ok = FALSE is an exception.
simai_parse_chart(chart) ==
    LET st == FragmentLoop(ParserState(TRUE, <<>>, <<>>, InitialBpm,
                                       InitialDivisor, {}),
                           Split(StripWhitespace(chart)), <<1, 1>>)
    IN  [ok |-> st.ok, notes |-> st.notes, bpms |-> st.bpms]

-----------------------------------------------------------------------------
(* Measure/time converter (tool/time.py).  A breakpoint is                 *)
(* [measure, bpm]: the measure in ticks, the tempo in whole bpm.  Seconds  *)
(* are counted in units of 1/20000 s and a returned measure in 1/480 of a  *)
(* tick, so that 240 * gap / bpm and its inverse are exact for every       *)
(* tempo that divides 480.                                                 *)

\* 60 * 4 * gap_measure / bpm for a gap in ticks, in units of 1/20000 s
GapTime(gap_measure, bpm) == gap_measure * ((2 * 240) \div bpm)

\* abs_tol = 0.0005 of math.isclose, in ticks of 1e-4 measure
MeasureTol == 5

\* abs_tol = 0.0005 of math.isclose, in units of 1/20000 s
SecondTol == 10

\* _check_bpms(bpms): TRUE when it returns, FALSE when it raises
check_bpms(bps) ==
    /\ Len(bps) # 0
    /\ \E i \in 1 .. Len(bps) : 0 <= bps[i].measure /\ bps[i].measure <= Grid

RECURSIVE InsertBp(_, _)
InsertBp(s, x) ==
    IF s = <<>> THEN <<x>>
    ELSE IF Head(s).measure <= x.measure THEN <<Head(s)>> \o InsertBp(Tail(s), x)
    ELSE <<x>> \o s

RECURSIVE SortBpms(_)
\* bpms.sort(key=lambda x: x[0]): a stable sort, in place
SortBpms(bps) ==
    IF bps = <<>> THEN <<>>
    ELSE InsertBp(SortBpms(SubSeq(bps, 1, Len(bps) - 1)), bps[Len(bps)])

RECURSIVE MeasureWalk(_, _, _, _, _, _)
\* The loop of measure_to_second from breakpoint i on, and the return
\* after it: the seconds.
MeasureWalk(bps, i, measure, previous_measure, previous_bpm, previous_time) ==
    IF i > Len(bps)
    THEN previous_time + GapTime(measure - previous_measure, previous_bpm)
    ELSE LET current_measure == bps[i].measure
             current_time == previous_time
                               + GapTime(current_measure - previous_measure,
                                         previous_bpm)
         IN  IF Abs(current_measure - measure) <= MeasureTol THEN current_time
             ELSE IF current_measure > measure
             THEN previous_time + GapTime(measure - previous_measure, previous_bpm)
             ELSE MeasureWalk(bps, i + 1, measure, current_measure,
                              bps[i].bpm, current_time)

\* measure_to_second(measure, bpms): [ok, value, bpms]: the seconds, and
\* the caller's list as the call leaves it.
measure_to_second(measure, bps) ==
    IF measure <= Grid THEN [ok |-> TRUE, value |-> 0, bpms |-> bps]
    ELSE IF ~check_bpms(bps) THEN [ok |-> FALSE, value |-> 0, bpms |-> bps]
    ELSE LET sorted == SortBpms(bps)
         IN  [ok |-> TRUE,
              value |-> MeasureWalk(sorted, 1, measure, Grid, sorted[1].bpm, 0),
              bpms |-> sorted]

RECURSIVE SecondWalk(_, _, _, _, _, _)
\* The loop of second_to_measure from breakpoint i on, and the return
\* after it: the measure, in 1/480 tick.
SecondWalk(bps, i, seconds, previous_measure, previous_time, previous_bpm) ==
    IF i > Len(bps)
    THEN (2 * 240) * previous_measure + (seconds - previous_time) * previous_bpm
    ELSE LET current_measure == bps[i].measure
             current_time == previous_time
                               + GapTime(current_measure - previous_measure,
                                         previous_bpm)
         IN  IF Abs(current_time - seconds) <= SecondTol
             THEN (2 * 240) * current_measure
             ELSE IF current_time > seconds
             THEN (2 * 240) * previous_measure
                    + (seconds - previous_time) * previous_bpm
             ELSE SecondWalk(bps, i + 1, seconds, current_measure,
                             current_time, bps[i].bpm)

\* second_to_measure(seconds, bpms): [ok, value, bpms]
second_to_measure(seconds, bps) ==
    IF seconds <= 0 THEN [ok |-> TRUE, value |-> (2 * 240) * Grid, bpms |-> bps]
    ELSE IF ~check_bpms(bps) THEN [ok |-> FALSE, value |-> 0, bpms |-> bps]
    ELSE LET sorted == SortBpms(bps)
         IN  [ok |-> TRUE,
              value |-> SecondWalk(sorted, 1, seconds, Grid, 0, sorted[1].bpm),
              bpms |-> sorted]

-----------------------------------------------------------------------------
(* State machines.  Each specification drives one part of the program and  *)
(* leaves the variables of the other parts at their idle values.           *)

\* The greatest number of notes a chart is given.
MaxNotes == 2

\* The greatest number of tempo markers a chart is given.
MaxBpms == 2

\* The greatest number of fragments of a parsed text.
MaxFragments == 4

\* The greatest number of breakpoints handed to the time converter.
MaxBreakpoints == 2

\* The argument x ticks, as a rational number of measures.
Ticks(x) == <<x, Grid>>

IdleLast ==
    [op |-> "none", ok |-> TRUE, stored |-> FALSE, duration |-> <<1, 1>>,
     delay |-> <<0, 1>>, bpm |-> 1, pattern |-> "", reflect_position |-> None]

IdleParsed == [ok |-> TRUE, notes |-> <<>>, bpms |-> <<>>]

IdleGeo ==
    [stage |-> "idle", code |-> 0, start |-> 0, end |-> 0,
     decoded |-> [ok |-> FALSE, pattern |-> "", reflect_position |-> None],
     encoded |-> [ok |-> FALSE, code |-> None],
     direction |-> [ok |-> FALSE, cw |-> FALSE]]

IdleTconv ==
    [stage |-> "idle", bpms |-> <<>>, measure |-> 0, seconds |-> 0,
     ok |-> TRUE, back |-> 0, back_ok |-> TRUE]

-----------------------------------------------------------------------------
(* Spec: the life of one chart.  It is built by the insertion operations,  *)
(* with arguments the constructors accept and arguments they should        *)
(* reject, then exported, and the exported text is parsed.                 *)

\* The call just made: its name, whether it returned (ok) or raised, whether
\* it stored something, and the arguments the claims speak of.
Called(op, ok, stored, duration, delay, bpm, pattern, reflect_position) ==
    [op |-> op, ok |-> ok, stored |-> stored, duration |-> duration,
     delay |-> delay, bpm |-> bpm, pattern |-> pattern,
     reflect_position |-> reflect_position]

\* The chart is still being built: nothing was exported yet.
Building == last.op \notin {"text", "export", "parse"}

Init ==
    /\ notes = <<>> /\ bpms = <<>> /\ text = <<>>
    /\ last = IdleLast /\ parsed = IdleParsed
    /\ geo = IdleGeo /\ tconv = IdleTconv

\* add_tap(measure, 0, is_break): a tap at 1.0 or 1.5 on the first lane
AddTap ==
    /\ Building /\ Len(notes) < MaxNotes
    /\ \E a \in {<<Ticks(10000), FALSE>>, <<Ticks(15000), TRUE>>} :
          LET r == add_tap(notes, a[1], 0, a[2], FALSE, FALSE)
          IN  /\ notes' = r.notes
              /\ last' = Called("add_tap", r.ok, notes' # notes, <<1, 1>>,
                                 <<0, 1>>, 1, "", None)
    /\ UNCHANGED <<bpms, text, parsed, geo, tconv>>

\* add_hold(1.0, 2, duration): a quarter, or no duration at all
AddHold ==
    /\ Building /\ Len(notes) < MaxNotes
    /\ \E duration \in {<<1, 4>>, <<0, 1>>, <<-1, 4>>} :
          LET r == add_hold(notes, Ticks(10000), 2, duration, FALSE)
          IN  /\ notes' = r.notes
              /\ last' = Called("add_hold", r.ok, notes' # notes, duration,
                                 <<0, 1>>, 1, "", None)
    /\ UNCHANGED <<bpms, text, parsed, geo, tconv>>

\* The (duration, pattern, delay, reflect_position) of the slides added.
SlideArguments ==
    { <<<<1, 2>>, "-", <<1, 4>>, None>>,
      <<<<1, 2>>, "V", <<1, 4>>, 2>>,
      <<<<1, 2>>, "-", <<1, 4>>, 2>>,
      <<<<1, 2>>, "V", <<1, 4>>, None>>,
      <<<<0, 1>>, "-", <<1, 4>>, None>>,
      <<<<1, 2>>, "-", <<-1, 4>>, None>> }

\* add_slide(1.0, 0, 4, duration, pattern, delay, reflect_position)
AddSlide ==
    /\ Building /\ Len(notes) < MaxNotes
    /\ \E a \in SlideArguments :
          LET r == add_slide(notes, Ticks(10000), 0, 4, a[1], a[2], a[3], a[4])
          IN  /\ notes' = r.notes
              /\ last' = Called("add_slide", r.ok, notes' # notes, a[1], a[3],
                                 1, a[2], a[4])
    /\ UNCHANGED <<bpms, text, parsed, geo, tconv>>

\* add_touch_tap(1.0, 0, "B")
AddTouchTap ==
    /\ Building /\ Len(notes) < MaxNotes
    /\ LET r == add_touch_tap(notes, Ticks(10000), 0, "B", FALSE)
       IN  /\ notes' = r.notes
           /\ last' = Called("add_touch_tap", r.ok, notes' # notes, <<1, 1>>,
                              <<0, 1>>, 1, "", None)
    /\ UNCHANGED <<bpms, text, parsed, geo, tconv>>

\* add_touch_hold(1.0, 0, "C", duration)
AddTouchHold ==
    /\ Building /\ Len(notes) < MaxNotes
    /\ \E duration \in {<<1, 4>>, <<0, 1>>} :
          LET r == add_touch_hold(notes, Ticks(10000), 0, "C", duration, FALSE)
          IN  /\ notes' = r.notes
              /\ last' = Called("add_touch_hold", r.ok, notes' # notes,
                                 duration, <<0, 1>>, 1, "", None)
    /\ UNCHANGED <<bpms, text, parsed, geo, tconv>>

\* set_bpm(measure, bpm): 120 bpm or 0 bpm, at 1.0 or 2.0
SetBpm ==
    /\ Building /\ Len(bpms) < MaxBpms
    /\ \E measure \in {10000, 20000}, bpm \in {12000, 0} :
          LET r == set_bpm(bpms, Ticks(measure), bpm)
          IN  /\ bpms' = r.bpms
              /\ last' = Called("set_bpm", r.ok, bpms' # bpms, <<1, 1>>,
                                 <<0, 1>>, bpm, "", None)
    /\ UNCHANGED <<notes, text, parsed, geo, tconv>>

\* export()
Export ==
    /\ Building
    /\ LET r == export(notes, bpms)
       IN  /\ text' = r.result
           /\ last' = [IdleLast EXCEPT !.op = "export", !.ok = r.ok]
    /\ UNCHANGED <<notes, bpms, parsed, geo, tconv>>

\* simai_parse_chart(text)
Parse ==
    /\ last.op \in {"text", "export"}
    /\ last.ok
    /\ parsed' = simai_parse_chart(text)
    /\ last' = [last EXCEPT !.op = "parse"]
    /\ UNCHANGED <<notes, bpms, text, geo, tconv>>

Next ==
    \/ AddTap \/ AddHold \/ AddSlide \/ AddTouchTap \/ AddTouchHold
    \/ SetBpm \/ Export \/ Parse

Spec == Init /\ [][Next]_vars

-----------------------------------------------------------------------------
(* SpecRest: the exporter on charts whose notes lie at measures of many    *)
(* denominators, under one tempo marker at 1.0.                            *)

\* The measures of the taps, in ticks: 1.0, 1.008, 1.0625, 1.5 and 2.5.
RestMeasures == {10000, 10080, 10625, 15000, 25000}

\* The notes a chart is built of: a tap at each of the measures, a hold
\* that ends before the next measure, a hold and a slide that end late.
RestNotes ==
    { add_tap(<<>>, Ticks(m), 0, FALSE, FALSE, FALSE).notes[1] : m \in RestMeasures }
    \cup { add_hold(<<>>, Ticks(10000), 2, <<1, 200>>, FALSE).notes[1],
           add_hold(<<>>, Ticks(15000), 3, <<2, 1>>, FALSE).notes[1],
           add_slide(<<>>, Ticks(10625), 5, 1, <<1, 2>>, "-", <<1, 4>>, None).notes[1] }

RestInit ==
    /\ text = <<>> /\ last = IdleLast /\ parsed = IdleParsed
    /\ geo = IdleGeo /\ tconv = IdleTconv
    /\ bpms = set_bpm(<<>>, Ticks(Grid), InitialBpm).bpms
    /\ notes \in UNION { [1 .. n -> RestNotes] : n \in 0 .. MaxNotes }

RestNext == Export

SpecRest == RestInit /\ [][RestNext]_vars

-----------------------------------------------------------------------------
(* SpecGeom: the slide geometry resolver on every code and lane pair *)

\* The geometry codes handed in: 1 .. 13 are known, 0 and 14 are not.
GeoCodes == 0 .. 14

GeoInit ==
    /\ notes = <<>> /\ bpms = <<>> /\ last = IdleLast /\ text = <<>>
    /\ parsed = IdleParsed /\ tconv = IdleTconv
    /\ \E c \in GeoCodes, s \in Lanes, e \in Lanes :
          geo = [IdleGeo EXCEPT !.stage = "init", !.code = c,
                                !.start = s, !.end = e]

\* simai_pattern_from_int(code, start, end)
Decode ==
    /\ geo.stage = "init"
    /\ geo' = [geo EXCEPT !.stage = "decoded",
                          !.decoded = simai_pattern_from_int(geo.code, geo.start,
                                                             geo.end)]
    /\ UNCHANGED <<notes, bpms, last, text, parsed, tconv>>

\* simai_pattern_to_int of the slide from start to end with the decoded
\* pattern and reflect position
Encode ==
    /\ geo.stage = "decoded"
    /\ geo.decoded.ok
    /\ LET c == SimaiSlideNote(Ticks(Grid), geo.start, geo.end, Ticks(Grid),
                               geo.decoded.pattern, Ticks(DefaultDelay),
                               geo.decoded.reflect_position)
       IN  /\ c.ok
           /\ geo' = [geo EXCEPT !.stage = "encoded",
                                 !.encoded = simai_pattern_to_int(c.note)]
    /\ UNCHANGED <<notes, bpms, last, text, parsed, tconv>>

\* slide_is_cw(start, end)
Direction ==
    /\ geo.stage = "init"
    /\ geo' = [geo EXCEPT !.stage = "direction",
                          !.direction = slide_is_cw(geo.start, geo.end)]
    /\ UNCHANGED <<notes, bpms, last, text, parsed, tconv>>

GeoNext == Decode \/ Encode \/ Direction

SpecGeom == GeoInit /\ [][GeoNext]_vars

-----------------------------------------------------------------------------
(* SpecTime: the measure/time converter on bounded breakpoint lists *)

\* Breakpoint measures, in ticks: 0.5, 0.8, 1.0 and 2.0.
BpMeasures == {5000, 8000, 10000, 20000}

\* Breakpoint tempos, in bpm.
BpTempos == {60, 240, 480}

Breakpoints == [measure : BpMeasures, bpm : BpTempos]

\* The lists of at most MaxBreakpoints breakpoints, in any order.
BreakpointLists ==
    UNION {[1 .. n -> Breakpoints] : n \in 0 .. MaxBreakpoints}

\* Queried measures, in ticks: 1.0, the chart's start, and measures after it.
QueryMeasures == {10000, 10001, 11000, 19992, 20000, 20004, 30000}

\* Queried seconds, in units of 1/20000 s.
QuerySeconds == {-10, 0, 5, 9992, 40000}

TimeInit ==
    /\ notes = <<>> /\ bpms = <<>> /\ last = IdleLast /\ text = <<>>
    /\ parsed = IdleParsed /\ geo = IdleGeo
    /\ \E bps \in BreakpointLists :
          tconv = [IdleTconv EXCEPT !.stage = "init", !.bpms = bps]

\* measure_to_second(m, bpms)
MeasureToSecond ==
    /\ tconv.stage = "init"
    /\ \E m \in QueryMeasures :
          LET r == measure_to_second(m, tconv.bpms)
          IN  tconv' = [tconv EXCEPT !.stage = "m2s", !.measure = m,
                                    !.seconds = r.value, !.ok = r.ok,
                                    !.bpms = r.bpms]
    /\ UNCHANGED <<notes, bpms, last, text, parsed, geo>>

\* second_to_measure of the seconds measure_to_second returned
SecondToMeasureBack ==
    /\ tconv.stage = "m2s"
    /\ tconv.ok
    /\ LET r == second_to_measure(tconv.seconds, tconv.bpms)
       IN  tconv' = [tconv EXCEPT !.stage = "back", !.back = r.value,
                                 !.back_ok = r.ok, !.bpms = r.bpms]
    /\ UNCHANGED <<notes, bpms, last, text, parsed, geo>>

\* second_to_measure(s, bpms)
SecondToMeasure ==
    /\ tconv.stage = "init"
    /\ \E sec \in QuerySeconds :
          LET r == second_to_measure(sec, tconv.bpms)
          IN  tconv' = [tconv EXCEPT !.stage = "s2m", !.seconds = sec,
                                    !.back = r.value, !.back_ok = r.ok,
                                    !.bpms = r.bpms]
    /\ UNCHANGED <<notes, bpms, last, text, parsed, geo>>

TimeNext == MeasureToSecond \/ SecondToMeasureBack \/ SecondToMeasure

SpecTime == TimeInit /\ [][TimeNext]_vars

-----------------------------------------------------------------------------
(* SpecParse: the fragment parser on bounded notation texts *)

\* The fragments a text is made of: "", "(120)4", "1", "2", "E",
\* "{8}3h[4:1]", "\n{3}" and "\nE".
ParseFragments ==
    { <<>>,
      <<BpmToken(InitialBpm), TapToken(3, "")>>,
      <<TapToken(0, "")>>,
      <<TapToken(1, "")>>,
      <<Terminator>>,
      <<DivisorToken(8), HoldToken(2, "h", [numerator |-> 1, denominator |-> 4])>>,
      <<Newline, DivisorToken(3)>>,
      <<Newline, Terminator>> }

RECURSIVE Join(_)
\* ",".join(fragments)
Join(fragments) ==
    IF Len(fragments) = 1 THEN fragments[1]
    ELSE fragments[1] \o <<Comma>> \o Join(Tail(fragments))

\* The texts of 1 .. MaxFragments fragments.
ParseTexts ==
    { Join(fs) : fs \in UNION { [1 .. n -> ParseFragments] : n \in 1 .. MaxFragments } }

ParseInit ==
    /\ notes = <<>> /\ bpms = <<>> /\ geo = IdleGeo /\ tconv = IdleTconv
    /\ parsed = IdleParsed
    /\ last = [IdleLast EXCEPT !.op = "text"]
    /\ text \in ParseTexts

ParseNext == Parse

SpecParse == ParseInit /\ [][ParseNext]_vars

-----------------------------------------------------------------------------
(* The claims about the chart builder, the exporter and the parser (Spec) *)

HoldKinds == {"hold", "ex_hold", "touch_hold"}

\* Every stored hold, touch hold and slide has a positive duration, every
\* slide a delay >= 0, every tempo marker a positive tempo.
ValidValues ==
    /\ \A i \in 1 .. Len(notes) :
          /\ notes[i].note_type \in HoldKinds \cup {"complete_slide"}
                => notes[i].duration > 0
          /\ notes[i].note_type = "complete_slide" => notes[i].delay >= 0
    /\ \A i \in 1 .. Len(bpms) : bpms[i].bpm > 0

\* Every stored slide has a reflect position exactly when its pattern is V.
ValidReflect ==
    \A i \in 1 .. Len(notes) :
        notes[i].note_type = "complete_slide"
            => (notes[i].reflect_position # None <=> notes[i].pattern = "V")

\* The same note within 1e-4 (one tick) on measures and durations.
SameNote(a, b) ==
    /\ a.note_type = b.note_type
    /\ Abs(a.measure - b.measure) <= 1
    /\ a.position = b.position
    /\ a.note_type \in HoldKinds \cup {"complete_slide"}
          => Abs(a.duration - b.duration) <= 1
    /\ a.note_type = "complete_slide"
          => /\ Abs(a.delay - b.delay) <= 1
             /\ a.end_position = b.end_position
             /\ a.pattern = b.pattern
             /\ a.reflect_position = b.reflect_position

SameBpm(a, b) == Abs(a.measure - b.measure) <= 1 /\ a.bpm = b.bpm

\* The same multiset: a one-to-one pairing of equal elements.
SameMultiset(s, t, Same(_, _)) ==
    /\ Len(s) = Len(t)
    /\ \E f \in [1 .. Len(s) -> 1 .. Len(s)] :
          /\ \A i, j \in 1 .. Len(s) : f[i] = f[j] => i = j
          /\ \A i \in 1 .. Len(s) : Same(s[i], t[f[i]])

\* C1: for every chart that export() accepts, parsing the exported text
\* yields the same multiset of notes (kind, measure, position, and for holds
\* and slides duration, delay, end position, pattern and reflect position)
\* and the same tempo markers, within 1e-4 on measures and durations.
\* The claim is stated here for the charts whose stored values are valid
\* (ValidValues, ValidReflect), the charts the builder is meant to hold: it
\* fails for these already.
C1_RoundTrip ==
    last.op = "parse" /\ ValidValues /\ ValidReflect
        => /\ parsed.ok
           /\ SameMultiset(notes, parsed.notes, SameNote)
           /\ SameMultiset(bpms, parsed.bpms, SameBpm)

\* C9: every stored hold, touch hold and slide has duration > 0, every
\* slide delay >= 0, every tempo marker bpm > 0; an insertion with a
\* non-positive duration, a negative delay or a non-positive bpm is rejected
\* with an error (and stores nothing).
C9_ValidValues ==
    /\ ValidValues
    /\ last.op \in {"add_hold", "add_touch_hold", "add_slide"}
          /\ last.duration[1] <= 0 => ~last.ok /\ ~last.stored
    /\ last.op = "add_slide" /\ last.delay[1] < 0 => ~last.ok /\ ~last.stored
    /\ last.op = "set_bpm" /\ last.bpm <= 0 => ~last.ok /\ ~last.stored

\* C10: every stored slide has a reflect position if and only if its
\* pattern is V; add_slide with pattern V and no reflect position, or with
\* another pattern and a reflect position, is rejected and stores nothing.
C10_ReflectIffV ==
    /\ ValidReflect
    /\ last.op = "add_slide"
          /\ (last.pattern = "V" <=> last.reflect_position = None)
          => ~last.ok /\ ~last.stored

-----------------------------------------------------------------------------
(* The claims about the measure/time converter (SpecTime) *)

\* The breakpoint list is empty or holds no breakpoint at or before 1.0.
NoStartingBreakpoint(bps) ==
    Len(bps) = 0 \/ \A i \in 1 .. Len(bps) : bps[i].measure > Grid

\* C5: for every breakpoint list that passes validation and every measure m,
\* second_to_measure(measure_to_second(m, bp), bp) differs from m by at
\* most 0.0005 measure (5 ticks, 5 * 480 in the unit of the returned measure).
C5_TimeRoundTrip ==
    tconv.stage = "back" /\ check_bpms(tconv.bpms)
        => /\ tconv.back_ok
           /\ Abs(tconv.back - (2 * 240) * tconv.measure) <= (2 * 240) * MeasureTol

\* C6: measure_to_second and second_to_measure raise for every call whose
\* breakpoint list is empty or has no breakpoint at or before measure 1.0,
\* whatever the measure or the seconds asked for.
C6_RaisesWithoutStart ==
    /\ tconv.stage = "m2s" /\ NoStartingBreakpoint(tconv.bpms) => ~tconv.ok
    /\ tconv.stage = "s2m" /\ NoStartingBreakpoint(tconv.bpms) => ~tconv.back_ok

-----------------------------------------------------------------------------
(* The claims about the slide geometry resolver (SpecGeom) *)

\* C7: for every code c in 1 .. 13 and all lanes s, e: the code of the slide
\* from s to e with the pattern and reflect position that
\* simai_pattern_from_int(c, s, e) returns is c again.  The claim's proviso
\* (an unambiguous direction) is met by every decoded pattern: "^" is
\* returned for arcs of at most 3 steps only, and a reflect position lies 2
\* steps from the start.
C7_PatternRoundTrip ==
    geo.stage = "encoded" /\ geo.code \in 1 .. 13
        => geo.encoded.ok /\ geo.encoded.code = geo.code

\* An ambiguous code decoded to "^" over the wrap of the ring, and encoded.
C7_Witness ==
    /\ geo.stage = "encoded" /\ geo.code = 3
    /\ geo.start = 6 /\ geo.end = 1
    /\ geo.decoded.pattern = "^" /\ geo.encoded.code = 3

\* C8: slide_is_cw(start, end) raises when the lanes are 4 steps apart;
\* otherwise, for start # end, it returns clockwise exactly when the
\* clockwise distance is smaller than the counter-clockwise distance.
C8_ShorterArc ==
    geo.stage = "direction"
        => LET cw == slide_distance(geo.start, geo.end, TRUE)
               ccw == slide_distance(geo.start, geo.end, FALSE)
           IN  /\ cw = 4 => ~geo.direction.ok
               /\ cw # 4 /\ geo.start # geo.end
                     => geo.direction.ok /\ (geo.direction.cw <=> cw < ccw)

\* The direction of a pair whose shorter arc goes counter-clockwise over
\* the wrap of the ring.
C8_Witness ==
    /\ geo.stage = "direction" /\ geo.start = 1 /\ geo.end = 6
    /\ geo.direction.ok /\ ~geo.direction.cw

-----------------------------------------------------------------------------
(* The claims about the fragment parser (SpecParse) *)

\* The fragments of a text as the claims read them: the text without its
\* newlines, cut at every comma.
TextFragments(t) ==
    LET items == SelectSeq(t, LAMBDA item : item # Newline)
        cut == SelectSeq([i \in 1 .. Len(items) |-> i],
                         LAMBDA i : items[i] = Comma)
    IN  [k \in 1 .. (Len(cut) + 1) |->
            SubSeq(items,
                   IF k = 1 THEN 1 ELSE cut[k - 1] + 1,
                   IF k > Len(cut) THEN Len(items) ELSE cut[k] - 1)]

\* d_k: the divisor in effect after fragment k, 4 before the first
\* divisor token.
DivisorAfter(fragments, k) ==
    LET with == {j \in 1 .. k :
                   \E i \in 1 .. Len(fragments[j]) : fragments[j][i].k = "divisor"}
        latest == CHOOSE j \in with : \A h \in with : h <= j
        ds == SelectSeq(fragments[latest], LAMBDA item : item.k = "divisor")
    IN  IF with = {} THEN 4 ELSE ds[Len(ds)].value

RECURSIVE SumOfRests(_, _, _)
\* acc + the sum of count[d] / d over the divisors d in ds, in lowest terms.
SumOfRests(ds, count, acc) ==
    IF ds = {} THEN acc
    ELSE LET d == CHOOSE x \in ds : TRUE
             n == acc[1] * d + count[d] * acc[2]
             g == Gcd(n, acc[2] * d)
         IN  SumOfRests(ds \ {d}, count, <<n \div g, (acc[2] * d) \div g>>)

\* The sum of 1 / d_j over the fragments a <= j < b, as <<numerator,
\* denominator>> in lowest terms.
RestBetween(fragments, a, b) ==
    LET after == [j \in a .. (b - 1) |-> DivisorAfter(fragments, j)]
        ds == {after[j] : j \in a .. (b - 1)}
        count == [d \in ds |-> Cardinality({j \in a .. (b - 1) : after[j] = d})]
    IN  SumOfRests(ds, count, <<0, 1>>)

\* The sum of 1 / d_j over the fragments j < k.
RestSum(fragments, k) == RestBetween(fragments, 1, k)

\* 1.0 + the sum of 1 / d_j over the fragments j < k, in ticks.
FragmentMeasure(fragments, k) ==
    LET p == RestSum(fragments, k)
    IN  RoundDiv(10000 * (p[1] + p[2]), p[2])

\* What the events of fragment k insert at measure m: <<kind, measure, value>>
\* for a note token (value its 0-based lane) and a tempo token (its tempo).
FragmentPlaced(fragment, m) ==
    LET items == SelectSeq(fragment, LAMBDA item : item.k \in {"tap", "hold", "bpm"})
    IN  [i \in 1 .. Len(items) |->
            IF items[i].k = "bpm" THEN <<"bpm", m, items[i].value>>
            ELSE <<items[i].k, m, items[i].lane - 1>>]

RECURSIVE ExpectedPlaced(_, _)
\* The insertions of the fragments k, k + 1, ... before the first "E".
ExpectedPlaced(fragments, k) ==
    IF k > Len(fragments) \/ fragments[k] = <<Terminator>> THEN <<>>
    ELSE FragmentPlaced(fragments[k], FragmentMeasure(fragments, k))
           \o ExpectedPlaced(fragments, k + 1)

\* <<kind, measure, value>> of the parsed notes, and of the parsed tempos.
ParsedNotes ==
    [i \in 1 .. Len(parsed.notes) |->
        <<parsed.notes[i].note_type, parsed.notes[i].measure,
          parsed.notes[i].position>>]

ParsedBpms ==
    [i \in 1 .. Len(parsed.bpms) |->
        <<"bpm", parsed.bpms[i].measure, parsed.bpms[i].bpm>>]

\* C2: the events of the k-th fragment before the first "E" fragment are
\* inserted at measure 1.0 + the sum over the fragments j < k of 1 / d_j,
\* d_j the divisor in effect after fragment j (4 at first); an empty
\* fragment inserts nothing and advances the measure; nothing of the "E"
\* fragment or of a fragment after it is inserted.
C2_PositionRule ==
    last.op = "parse" /\ parsed.ok
        => LET expected == ExpectedPlaced(TextFragments(text), 1)
           IN  /\ ParsedNotes = SelectSeq(expected, LAMBDA x : x[1] # "bpm")
               /\ ParsedBpms = SelectSeq(expected, LAMBDA x : x[1] = "bpm")

\* The text "1,,{8}3h[4:1],2" parsed: an empty fragment, a divisor change
\* and a note after it, at 1.0 + 1/4 + 1/4 + 1/8.
C2_Witness ==
    /\ last.op = "parse" /\ parsed.ok
    /\ text = <<TapToken(0, ""), Comma, Comma, DivisorToken(8),
                HoldToken(2, "h", [numerator |-> 1, denominator |-> 4]),
                Comma, TapToken(1, "")>>
    /\ Len(parsed.notes) = 3
    /\ parsed.notes[3].measure = 16250

\* The text "(120)4,1,2,E"
C3_Text ==
    <<BpmToken(12000), TapToken(3, ""), Comma, TapToken(0, ""), Comma,
      TapToken(1, ""), Comma, Terminator>>

\* A parsed tap at the position index and the measure (in ticks).
ParsedTapAt(position, measure) ==
    \E i \in 1 .. Len(parsed.notes) :
        /\ parsed.notes[i].note_type = "tap"
        /\ parsed.notes[i].position = position
        /\ parsed.notes[i].measure = measure

\* A parsed tempo marker of the tempo (in 1/100 bpm) at the measure.
ParsedBpmAt(bpm, measure) ==
    \E i \in 1 .. Len(parsed.bpms) :
        parsed.bpms[i].bpm = bpm /\ parsed.bpms[i].measure = measure

\* C3 as the claim states it: parsing "(120)4,1,2,E" yields a tempo marker
\* of 120 bpm at measure 1.0, a tap with position index 3 at measure 1.0
\* and a tap with position index 0 at measure 2.0.
C3_Original ==
    last.op = "parse" /\ text = C3_Text
        => /\ parsed.ok
           /\ ParsedBpmAt(12000, 10000)
           /\ ParsedTapAt(3, 10000)
           /\ ParsedTapAt(0, 20000)

\* C3, amended: parsing "(120)4,1,2,E" yields a tempo marker of 120 bpm at
\* measure 1.0, a tap with position index 3 at measure 1.0, a tap with
\* position index 0 at measure 1.25 and a tap with position index 1 at
\* measure 1.5, and nothing else.
C3_Scenario ==
    last.op = "parse" /\ text = C3_Text
        => /\ parsed.ok
           /\ ParsedBpmAt(12000, 10000) /\ Len(parsed.bpms) = 1
           /\ ParsedTapAt(3, 10000)
           /\ ParsedTapAt(0, 12500)
           /\ ParsedTapAt(1, 15000)
           /\ Len(parsed.notes) = 3

\* The text "(120)4,1,2,E" parsed.
C3_Witness ==
    /\ last.op = "parse" /\ text = C3_Text
    /\ parsed.ok /\ Len(parsed.notes) = 3

-----------------------------------------------------------------------------
(* The claims about the exporter's rests (SpecRest) *)

\* The denominator of the fractional part of x ticks, in lowest terms.
FractionalDenominator(x) == 10000 \div Gcd(x % 10000, 10000)

\* The distinct event measures of the chart, ascending.
EventMeasures ==
    SortedSeq({notes[j].measure : j \in 1 .. Len(notes)}
              \cup {bpms[j].measure : j \in 1 .. Len(bpms)})

\* The fragments of the text that carry an event, ascending: the k-th is the
\* fragment of the k-th event measure.
EventFragments(fragments) ==
    SortedSeq({k \in 1 .. Len(fragments) :
                 \E i \in 1 .. Len(fragments[k]) :
                     fragments[k][i].k \notin {"divisor", "E"}})

\* The greatest measure where a hold or a slide of the chart ends, or 0.
GreatestEnd ==
    LET ends == {IF notes[j].note_type = "complete_slide"
                 THEN notes[j].measure + notes[j].delay + notes[j].duration
                 ELSE notes[j].measure + notes[j].duration :
                     j \in {i \in 1 .. Len(notes) :
                               notes[i].note_type \in HoldKinds \cup {"complete_slide"}}}
    IN  IF ends = {} THEN 0 ELSE CHOOSE e \in ends : \A f \in ends : f <= e

\* The commas between fragments a and b, counted 1 / d each, sum to exactly
\* x ticks.
CommasSumTo(fragments, a, b, x) ==
    LET r == RestBetween(fragments, a, b)
    IN  r[1] * 10000 = x * r[2]

\* The commas between fragments a and b sum to at least x ticks.
CommasReach(fragments, a, b, x) ==
    LET r == RestBetween(fragments, a, b)
    IN  r[1] * 10000 >= x * r[2]

\* The commas before the terminator reach the greatest end measure when it
\* exceeds the last measure.
EndReached(fragments, ev, ms) ==
    GreatestEnd > ms[Len(ms)]
        => CommasReach(fragments, ev[Len(ev)], Len(fragments),
                       GreatestEnd - ms[Len(ms)])

\* Every divisor token written after another one differs from it: a token
\* is written only when the divisor changes.
DivisorTokensDiffer ==
    \A i, j \in 1 .. Len(text) :
        /\ i < j /\ text[i].k = "divisor" /\ text[j].k = "divisor"
        /\ \A h \in (i + 1) .. (j - 1) : text[h].k # "divisor"
        => text[i].value # text[j].value

\* C4 as the claim states it: for consecutive distinct event measures
\* m < m' with fractional denominators <= 1000, the commas between their
\* fragments sum to exactly m' - m; the commas before the terminator reach
\* the greatest end measure; a divisor token is written only when the
\* divisor changes.
C4_Original ==
    last.op = "export" /\ last.ok
        => LET fragments == TextFragments(text)
               ev == EventFragments(fragments)
               ms == EventMeasures
           IN  /\ Len(ev) = Len(ms)
               /\ \A i \in 1 .. (Len(ms) - 1) :
                     FractionalDenominator(ms[i]) <= 1000
                     /\ FractionalDenominator(ms[i + 1]) <= 1000
                     => CommasSumTo(fragments, ev[i], ev[i + 1], ms[i + 1] - ms[i])
               /\ EndReached(fragments, ev, ms)
               /\ DivisorTokensDiffer

\* C4, amended: the sum is exactly m' - m for the consecutive measures whose
\* difference m' - m has a fractional part of denominator <= 1000 (for the
\* others the commas stand for the closest fraction of a denominator
\* <= 1000); the end is reached and the divisor tokens differ as claimed.
C4_RestBookkeeping ==
    last.op = "export" /\ last.ok
        => LET fragments == TextFragments(text)
               ev == EventFragments(fragments)
               ms == EventMeasures
           IN  /\ Len(ev) = Len(ms)
               /\ \A i \in 1 .. (Len(ms) - 1) :
                     FractionalDenominator(ms[i + 1] - ms[i]) <= 1000
                     => CommasSumTo(fragments, ev[i], ev[i + 1], ms[i + 1] - ms[i])
               /\ EndReached(fragments, ev, ms)
               /\ DivisorTokensDiffer

\* An exported chart with notes at 1.0625 and 2.5: a rest of one whole
\* measure and 7/16, written under the divisors 1 and 16.
C4_Witness ==
    /\ last.op = "export" /\ last.ok
    /\ EventMeasures = <<10000, 10625, 25000>>
    /\ \E i \in 1 .. Len(text) : text[i] = DivisorToken(1)
    /\ Len(SelectSeq(text, LAMBDA item : item = DivisorToken(16))) = 2

-----------------------------------------------------------------------------
(* The claims about the exporter's preconditions (Spec) *)

\* The chart has no tempo marker, none at a measure <= 1.0, or two at one
\* measure.
BadTempo ==
    \/ Len(bpms) = 0
    \/ \A i \in 1 .. Len(bpms) : bpms[i].measure > 10000
    \/ \E i, j \in 1 .. Len(bpms) : i # j /\ bpms[i].measure = bpms[j].measure

\* C11: export() fails, returns no text and leaves the chart unchanged
\* whenever the chart has no tempo marker, none at a measure <= 1.0, or two
\* at one measure; in every other case built from valid insertions it
\* returns a text that ends with the terminator E.
C11_ExportPreconditions ==
    [][Building /\ last'.op = "export"
          => IF BadTempo
             THEN ~last'.ok /\ text' = <<>> /\ notes' = notes /\ bpms' = bpms
             ELSE ValidValues /\ ValidReflect
                    => /\ last'.ok
                       /\ Len(text') > 0
                       /\ text'[Len(text')] = Terminator]_vars

-----------------------------------------------------------------------------
(* SpecTempo: the tempo lookup on bounded lists of tempo markers *)

\* The measures tempo markers are set at, in ticks: 0.0, 1.0, 2.0 and 2.5.
TempoMeasures == {0, 10000, 20000, 25000}

\* The tempos of the markers: 120 and 150 bpm.
TempoBpms == {12000, 15000}

\* The measures looked up, in ticks: from -1.0 to 3.0.
TempoQueries == {-10000, -1, 0, 5000, 10000, 15000, 20000, 30000}

\* The lookup just made: the measure asked for and the value returned.
Asked(measure, result) ==
    [op |-> "get_bpm", ok |-> TRUE, measure |-> measure, result |-> result]

TempoInit ==
    /\ notes = <<>> /\ bpms = <<>> /\ text = <<>>
    /\ last = IdleLast /\ parsed = IdleParsed
    /\ geo = IdleGeo /\ tconv = IdleTconv

\* set_bpm(measure, bpm)
TempoSetBpm ==
    /\ Len(bpms) < MaxBpms
    /\ \E measure \in TempoMeasures, bpm \in TempoBpms :
          LET r == set_bpm(bpms, Ticks(measure), bpm)
          IN  /\ bpms' = r.bpms
              /\ last' = Called("set_bpm", r.ok, bpms' # bpms, <<1, 1>>,
                                 <<0, 1>>, bpm, "", None)
    /\ UNCHANGED <<notes, text, parsed, geo, tconv>>

\* get_bpm(measure)
GetBpm ==
    /\ \E measure \in TempoQueries :
          last' = Asked(measure, get_bpm(bpms, measure))
    /\ UNCHANGED <<notes, bpms, text, parsed, geo, tconv>>

TempoNext == TempoSetBpm \/ GetBpm

SpecTempo == TempoInit /\ [][TempoNext]_vars

-----------------------------------------------------------------------------
(* The claims about the tempo lookup (SpecTempo) *)

\* The markers at a measure <= q.
MarkersUpTo(q) == { i \in 1 .. Len(bpms) : bpms[i].measure <= q }

\* The markers of the greatest measure that is <= q.
GoverningMarkers(q) ==
    { i \in MarkersUpTo(q) :
        \A j \in MarkersUpTo(q) : bpms[j].measure <= bpms[i].measure }

\* C12: for every set of tempo markers and every query measure q,
\* get_bpm(q) returns the bpm of the marker with the greatest measure that
\* is <= q, and returns None exactly when no marker has a measure <= q.
C12_TempoLookup ==
    last.op = "get_bpm"
        => IF MarkersUpTo(last.measure) = {}
           THEN last.result = None
           ELSE \E i \in GoverningMarkers(last.measure) :
                    last.result = bpms[i].bpm

-----------------------------------------------------------------------------
(* Chart builder: SimaiChart.offset.  The offset is a rational <<n, d>>,   *)
(* d > 0, of measures.                                                     *)

\* The variant of Shifted that rounds to an even tick.
Shifted_mutant(measure, x) ==
    2 * RoundDiv(measure * x[2] + Grid * x[1], 2 * x[2])

\* round((measure + offset) * 10000.0), in ticks
Shifted(measure, x) == RoundDiv(measure * x[2] + Grid * x[1], x[2])

\* The variant of offset that moves the tempo marker at 1.0 too.
offset_mutant(ns, bs, x) ==
    [notes |-> [i \in 1 .. Len(ns) |->
                    [ns[i] EXCEPT !.measure = Shifted(@, x)]],
     bpms |-> [i \in 1 .. Len(bs) |->
                    [bs[i] EXCEPT !.measure = Shifted(@, x)]]]

\* offset(offset): the chart (notes, bpms) after the shift
offset(ns, bs, x) ==
    [notes |-> [i \in 1 .. Len(ns) |->
                    [ns[i] EXCEPT !.measure = Shifted(@, x)]],
     bpms |-> [i \in 1 .. Len(bs) |->
                    IF bs[i].measure = Grid
                    THEN bs[i]
                    ELSE [bs[i] EXCEPT !.measure = Shifted(@, x)]]]

-----------------------------------------------------------------------------
(* SpecShift: the shift on bounded charts, applied up to MaxShifts times *)

\* The greatest number of shifts a chart is given.
MaxShifts == 2

\* The notes a chart is built of: a tap at 1.0, a hold at 0.5 and a slide
\* at 1.5.
ShiftNotes ==
    { add_tap(<<>>, Ticks(10000), 0, FALSE, FALSE, FALSE).notes[1],
      add_hold(<<>>, Ticks(5000), 2, <<1, 4>>, FALSE).notes[1],
      add_slide(<<>>, Ticks(15000), 0, 4, <<1, 2>>, "V", <<1, 8>>, 2).notes[1] }

\* The tempo markers a chart is built of: at 0.5, 1.0 and 1.5.
ShiftBpms ==
    { set_bpm(<<>>, Ticks(5000), 15000).bpms[1],
      set_bpm(<<>>, Ticks(Grid), InitialBpm).bpms[1],
      set_bpm(<<>>, Ticks(15000), 9000).bpms[1] }

\* The offsets: half a measure forth and back, one tick, a third of a
\* measure (which is off the grid).
ShiftOffsets == {<<1, 2>>, <<-1, 2>>, <<1, 10000>>, <<1, 3>>}

\* The shift just made: its offset, the offsets so far and the chart
\* before the first of them.
ShiftedBy(x, shifts, origin) ==
    [op |-> "offset", ok |-> TRUE, offset |-> x, shifts |-> shifts,
     origin |-> origin]

ShiftInit ==
    /\ text = <<>> /\ last = IdleLast /\ parsed = IdleParsed
    /\ geo = IdleGeo /\ tconv = IdleTconv
    /\ notes \in UNION { [1 .. n -> ShiftNotes] : n \in 0 .. MaxNotes }
    /\ bpms \in UNION { [1 .. n -> ShiftBpms] : n \in 0 .. MaxBpms }

\* offset(x)
Offset ==
    /\ last.op = "offset" => Len(last.shifts) < MaxShifts
    /\ \E x \in ShiftOffsets :
          LET r == offset(notes, bpms, x)
          IN  /\ notes' = r.notes
              /\ bpms' = r.bpms
              /\ last' = IF last.op = "offset"
                         THEN ShiftedBy(x, Append(last.shifts, x), last.origin)
                         ELSE ShiftedBy(x, <<x>>,
                                        [notes |-> notes, bpms |-> bpms])
    /\ UNCHANGED <<text, parsed, geo, tconv>>

ShiftNext == Offset

SpecShift == ShiftInit /\ [][ShiftNext]_vars

-----------------------------------------------------------------------------
(* The claims about the shift (SpecShift) *)

\* The tick t is measure + x rounded to the grid: no tick is nearer.
RoundedSum(t, measure, x) ==
    2 * Abs(t * x[2] - (measure * x[2] + Grid * x[1])) <= x[2]

\* C13: offset(x) replaces the measure of every note by measure + x rounded
\* to 1e-4, and the measure of every tempo marker likewise, except that a
\* marker whose measure is exactly 1.0 keeps 1.0; the number and order of
\* the notes and markers and every other field stay as they were.
C13_ShiftEffect ==
    [][last'.op = "offset"
          => /\ Len(notes') = Len(notes)
             /\ Len(bpms') = Len(bpms)
             /\ \A i \in 1 .. Len(notes) :
                   /\ RoundedSum(notes'[i].measure, notes[i].measure,
                                 last'.offset)
                   /\ [notes'[i] EXCEPT !.measure = 0]
                         = [notes[i] EXCEPT !.measure = 0]
             /\ \A i \in 1 .. Len(bpms) :
                   /\ bpms'[i].bpm = bpms[i].bpm
                   /\ IF bpms[i].measure = Grid
                      THEN bpms'[i].measure = Grid
                      ELSE RoundedSum(bpms'[i].measure, bpms[i].measure,
                                      last'.offset)]_vars

\* A chart of a note and two markers was shifted once: the marker at 1.0
\* stayed, the other marker and the note moved.
C13_Witness ==
    /\ last.op = "offset" /\ Len(last.shifts) = 1
    /\ Len(notes) >= 1 /\ notes[1].measure # last.origin.notes[1].measure
    /\ \E i, j \in 1 .. Len(bpms) :
          /\ last.origin.bpms[i].measure = Grid /\ bpms[i].measure = Grid
          /\ last.origin.bpms[j].measure # Grid
          /\ bpms[j].measure # last.origin.bpms[j].measure

\* The offset x is a whole number of ticks.
OnGrid(x) == (Grid * x[1]) % x[2] = 0

\* The offset x in ticks, for an offset on the grid.
InTicks(x) == (Grid * x[1]) \div x[2]

\* The chart was shifted twice, by offsets on the grid.
ShiftedTwice ==
    /\ last.op = "offset" /\ Len(last.shifts) = 2
    /\ OnGrid(last.shifts[1]) /\ OnGrid(last.shifts[2])

\* The sum a + b of the two offsets, in ticks.
BothShifts == InTicks(last.shifts[1]) + InTicks(last.shifts[2])

\* Every note is where a single offset(a + b) puts it.
NotesComposed ==
    \A i \in 1 .. Len(notes) :
        notes[i].measure = last.origin.notes[i].measure + BothShifts

\* The marker i is where a single offset(a + b) puts it: a marker at 1.0
\* stays, any other moves by a + b.
MarkerComposed(i) ==
    bpms[i].measure = IF last.origin.bpms[i].measure = Grid
                      THEN Grid
                      ELSE last.origin.bpms[i].measure + BothShifts

\* The first shift moves the marker i onto exactly 1.0.
MovedOntoStart(i) ==
    /\ last.origin.bpms[i].measure # Grid
    /\ last.origin.bpms[i].measure + InTicks(last.shifts[1]) = Grid

\* C16 as stated: for every chart and all offsets a, b on the 1e-4 grid,
\* offset(a) then offset(b) leaves every note and every tempo marker at the
\* measure a single offset(a + b) leaves it at; offset(a) then offset(-a)
\* restores every measure.
C16_Original ==
    ShiftedTwice
        => /\ NotesComposed
           /\ \A i \in 1 .. Len(bpms) : MarkerComposed(i)

\* C16: for every chart and all offsets a, b on the 1e-4 grid, offset(a)
\* then offset(b) leaves every note, and every tempo marker that offset(a)
\* does not move onto exactly 1.0, at the measure a single offset(a + b)
\* leaves it at; a marker that offset(a) moves onto 1.0 stays at 1.0.
C16_ShiftComposition ==
    ShiftedTwice
        => /\ NotesComposed
           /\ \A i \in 1 .. Len(bpms) :
                 IF MovedOntoStart(i)
                 THEN bpms[i].measure = Grid
                 ELSE MarkerComposed(i)

\* A chart with a note, a marker at 1.0 and a marker at 1.5 was shifted by
\* half a measure and back: every measure is restored.
C16_Witness ==
    /\ ShiftedTwice
    /\ last.shifts = <<(<<1, 2>>), (<<-1, 2>>)>>
    /\ Len(notes) >= 1
    /\ \E i, j \in 1 .. Len(bpms) :
          /\ last.origin.bpms[i].measure = Grid
          /\ last.origin.bpms[j].measure = 15000 /\ bpms[j].measure = 15000

-----------------------------------------------------------------------------
(* SpecSlide: the exporter on charts of slides of many delays, under a     *)
(* tempo marker at 1.0 and, in half of the charts, another at 1.5.         *)

\* The delays of the slides: the default 1/4, 1/8, 3/10, 1/3 and 0.
SlideDelays == {<<1, 4>>, <<1, 8>>, <<3, 10>>, <<1, 3>>, <<0, 1>>}

\* The durations of the slides: 1/2 and 1/3.
SlideDurations == {<<1, 2>>, <<1, 3>>}

\* The slides a chart is built of: from lane 0 to lane 4 at 1.0 and from
\* lane 1 to lane 5 at 1.5.
SlideNotes ==
    { add_slide(<<>>, Ticks(10000), 0, 4, duration, "-", delay, None).notes[1] :
        duration \in SlideDurations, delay \in SlideDelays }
    \cup
    { add_slide(<<>>, Ticks(15000), 1, 5, duration, "-", delay, None).notes[1] :
        duration \in SlideDurations, delay \in SlideDelays }

\* The tempo markers: 120 bpm at 1.0, with or without 150 bpm at 1.5.
SlideBpms ==
    { set_bpm(<<>>, Ticks(Grid), InitialBpm).bpms,
      set_bpm(set_bpm(<<>>, Ticks(Grid), InitialBpm).bpms,
              Ticks(15000), 15000).bpms }

SlideInit ==
    /\ text = <<>> /\ last = IdleLast /\ parsed = IdleParsed
    /\ geo = IdleGeo /\ tconv = IdleTconv
    /\ bpms \in SlideBpms
    /\ notes \in UNION { [1 .. n -> SlideNotes] : n \in 0 .. MaxNotes }

SlideNext == Export

SpecSlide == SlideInit /\ [][SlideNext]_vars

-----------------------------------------------------------------------------
(* The claims about the exporter's slide duration specs (SpecSlide) *)

\* No two slides of the chart start at one measure and lane.
SlidesApart ==
    \A i, j \in 1 .. Len(notes) :
        i # j => \/ notes[i].measure # notes[j].measure
                 \/ notes[i].position # notes[j].position

\* The tempo governing the measure: the bpm of the latest marker at or
\* before it.
GoverningTempo(measure) ==
    bpms[CHOOSE i \in GoverningMarkers(measure) : TRUE].bpm

\* The tokens of the text written for the slide: those with its end lane.
SlideTokensOf(slide_note) ==
    { k \in 1 .. Len(text) :
        text[k].k = "slide" /\ text[k].end = slide_note.end_position + 1 }

\* The token carries the duration spec the claim describes for the slide.
\* Plain: no tempo, num/den is the duration to the grid.  Scaled: the
\* tempo is tempo * 0.25 / delay to two decimals, and the parser's scaling
\* by tempo / equivalent tempo gives back the delay and the duration.
DurationSpecOf(token, slide_note, tempo) ==
    IF slide_note.delay = DefaultDelay
    THEN /\ token.equivalent_bpm = None
         /\ RoundTicks(<<token.num, token.den>>) = slide_note.duration
    ELSE /\ token.equivalent_bpm # None
         /\ 2 * Abs(token.equivalent_bpm * slide_note.delay
                      - tempo * DefaultDelay) <= slide_note.delay
         /\ RoundTicks(Scaled(tempo, token.equivalent_bpm,
                              <<token.num, token.den>>)) = slide_note.duration
         /\ RoundTicks(Scaled(tempo, token.equivalent_bpm, <<1, 4>>))
               = slide_note.delay

\* C14: for every slide the chart accepts (duration > 0, any delay >= 0),
\* export writes a bracketed duration spec: plain [den:num] with num/den the
\* duration when the delay is 0.25, otherwise [bpm#den:num] with bpm the
\* governing tempo * 0.25 / delay and num/den the duration * 0.25 / delay,
\* so that scaling by current_bpm / equivalent_bpm recovers the stored delay
\* and duration.
C14_SlideDurationSpec ==
    last.op = "export" /\ SlidesApart
        => /\ last.ok
           /\ \A i \in 1 .. Len(notes) :
                 /\ SlideTokensOf(notes[i]) # {}
                 /\ \A k \in SlideTokensOf(notes[i]) :
                       DurationSpecOf(text[k], notes[i],
                                      GoverningTempo(notes[i].measure))

-----------------------------------------------------------------------------
(* SpecStar: the exporter on charts of taps, star taps and slides that     *)
(* share the measure 1.0, under one tempo marker at 1.0.                   *)

\* The greatest number of notes a chart of stars and slides is given.
MaxStarNotes == 3

\* The notes a chart is built of: on lane 0 a star, a break star, an ex
\* star and a break tap, on lane 2 a star, and two slides from lane 0.
StarNotes ==
    { add_tap(<<>>, Ticks(Grid), 0, FALSE, TRUE, FALSE).notes[1],
      add_tap(<<>>, Ticks(Grid), 0, TRUE, TRUE, FALSE).notes[1],
      add_tap(<<>>, Ticks(Grid), 0, FALSE, TRUE, TRUE).notes[1],
      add_tap(<<>>, Ticks(Grid), 0, TRUE, FALSE, FALSE).notes[1],
      add_tap(<<>>, Ticks(Grid), 2, FALSE, TRUE, FALSE).notes[1],
      add_slide(<<>>, Ticks(Grid), 0, 4, <<1, 2>>, "-", <<1, 4>>, None).notes[1],
      add_slide(<<>>, Ticks(Grid), 0, 2, <<1, 2>>, "-", <<1, 4>>, None).notes[1] }

StarInit ==
    /\ text = <<>> /\ last = IdleLast /\ parsed = IdleParsed
    /\ geo = IdleGeo /\ tconv = IdleTconv
    /\ bpms = set_bpm(<<>>, Ticks(Grid), InitialBpm).bpms
    /\ notes \in UNION { [1 .. n -> StarNotes] : n \in 0 .. MaxStarNotes }

StarNext == Export

SpecStar == StarInit /\ [][StarNext]_vars

-----------------------------------------------------------------------------
(* The claims about stars and slides on one lane (SpecStar).  Every note   *)
(* of these charts lies at the measure 1.0, so that sharing a lane is      *)
(* sharing measure and lane.                                               *)

StarKinds == {"star", "break_star", "ex_star"}

\* The slides, the taps and the star taps of the chart on the lane.
SlidesAt(lane) ==
    { i \in 1 .. Len(notes) :
        notes[i].note_type = "complete_slide" /\ notes[i].position = lane }

TapsAt(lane) ==
    { i \in 1 .. Len(notes) :
        notes[i].note_type \in TapTypes /\ notes[i].position = lane }

StarsAt(lane, kind) ==
    { i \in TapsAt(lane) : notes[i].note_type = kind }

\* The tap tokens of the text for the lane with the modifier.
TapTokensAt(lane, modifier) ==
    { k \in 1 .. Len(text) :
        /\ text[k].k = "tap"
        /\ text[k].lane = lane + 1 /\ text[k].modifier = modifier }

\* The slide tokens of the text that carry the lane's number, and those
\* written with "*" (a start of 0).
SlideTokensAt(lane) ==
    { k \in 1 .. Len(text) : text[k].k = "slide" /\ text[k].start = lane + 1 }

LaterSlideTokens ==
    { k \in 1 .. Len(text) : text[k].k = "slide" /\ text[k].start = 0 }

\* What a star tap of the kind is written as when no slide absorbs it.
StarModifier(kind) ==
    IF kind = "break_star" THEN "b$" ELSE IF kind = "ex_star" THEN "x$" ELSE "$"

\* The modifier that mirrors the kind of a tap.
Mirrored(kind) ==
    IF kind \in {"break_tap", "break_star"} THEN "b"
    ELSE IF kind \in {"ex_tap", "ex_star"} THEN "x"
    ELSE ""

\* C15: a star tap (star, break-star, ex-star) sharing measure and lane
\* with a slide produces no tap token of its own, while a star tap with no
\* slide at its lane produces $, b$ or x$; the first slide token at a lane
\* carries ? when no tap is co-located at that lane and otherwise b, x or
\* no modifier, mirroring the break, ex or normal kind of the co-located
\* tap; every later slide at the same lane is written with * in place of
\* the lane number and without a preceding slash.
C15_StarSlideColocation ==
    last.op = "export"
        => /\ last.ok
           /\ \A lane \in Lanes, kind \in StarKinds :
                 Cardinality(TapTokensAt(lane, StarModifier(kind)))
                     = IF SlidesAt(lane) = {} THEN Cardinality(StarsAt(lane, kind))
                       ELSE 0
           /\ \A lane \in Lanes :
                 SlidesAt(lane) # {}
                     => /\ Cardinality(SlideTokensAt(lane)) = 1
                        /\ \A k \in SlideTokensAt(lane) :
                              IF TapsAt(lane) = {}
                              THEN text[k].modifier = "?"
                              ELSE \E i \in TapsAt(lane) :
                                      text[k].modifier
                                          = Mirrored(notes[i].note_type)
           /\ Cardinality(LaterSlideTokens)
                 = Cardinality({ i \in 1 .. Len(notes) :
                                   notes[i].note_type = "complete_slide" })
                   - Cardinality({ lane \in Lanes : SlidesAt(lane) # {} })
           /\ \A k \in LaterSlideTokens : k > 1 /\ text[k - 1].k = "slide"

=============================================================================
